---- MODULE Spec2Model ----
(***************************************************************************)
(* The query-and-aggregation tools of the business assistant               *)
(* (src/manager/...): each tool validates its arguments, runs one or more  *)
(* SQL queries against the read-only accounting store (tallydb.db) and     *)
(* returns a payload with a status field.                                  *)
(*                                                                         *)
(* Text is modelled as a sequence of one-character strings so that SQL     *)
(* LIKE can be computed; money is an integer amount; a stored voucher date *)
(* is a day number, which orders as its ISO text "YYYY-MM-DD" does.        *)
(***************************************************************************)
EXTENDS Integers, Sequences, FiniteSets, TLC

\* ------------------------------------------------------------------ bounds
MaxEntries == 2    \* transaction rows (trn_accounting, trn_inventory) in the store
MaxDay == 3        \* calendar days a date argument ranges over
MaxJoined == 3     \* rows of trn_accounting and trn_inventory together, where joined
MaxMovements == 3  \* rows of trn_inventory in the item store
MaxClock == 3      \* ticks of the wall clock (two ticks to the second)
MaxAttendees == 2  \* attendees of a meeting

\* ------------------------------------------------------------------- text
UpperToLower ==
    ("A" :> "a") @@ ("B" :> "b") @@ ("C" :> "c") @@ ("M" :> "m") @@
    ("P" :> "p") @@ ("R" :> "r") @@ ("S" :> "s") @@ ("W" :> "w")

lower(c) == IF c \in DOMAIN UpperToLower THEN UpperToLower[c] ELSE c

\* SQLite  text LIKE '%fragment%'  (case-insensitive containment)
LIKE(text, fragment) ==
    \E k \in 0..(Len(text) - Len(fragment)) :
        \A j \in 1..Len(fragment) : lower(text[k + j]) = lower(fragment[j])

\* the characters in use, in byte order (SQLite BINARY collation)
Alphabet == <<"-", "0", "1", "2", "3", "4", "5", "6", "7", "8", "9",
              "A", "B", "C", "M", "P", "R", "S", "W",
              "a", "c", "d", "e", "g", "h", "i", "k", "l", "m", "n", "o",
              "p", "r", "s", "t", "x", "y">>

rank(c) == CHOOSE k \in 1..Len(Alphabet) : Alphabet[k] = c

\* a <= b as ORDER BY compares two texts
RECURSIVE text_le(_, _)
text_le(a, b) ==
    IF a = <<>> THEN TRUE
    ELSE IF b = <<>> THEN FALSE
    ELSE IF Head(a) # Head(b) THEN rank(Head(a)) < rank(Head(b))
    ELSE text_le(Tail(a), Tail(b))

Cash == <<"C", "a", "s", "h">>
Bank == <<"B", "a", "n", "k">>
Sales == <<"S", "a", "l", "e", "s">>
Petty == <<"P", "e", "t", "t", "y">>
Payment == <<"P", "a", "y", "m", "e", "n", "t">>
Receipt == <<"R", "e", "c", "e", "i", "p", "t">>
Acme == <<"A", "c", "m", "e">>
Bolt == <<"B", "o", "l", "t">>
Widget == <<"W", "i", "d", "g", "e", "t">>
Main == <<"M", "a", "i", "n">>
Axle == <<"A", "x", "l", "e">>
Cam == <<"C", "a", "m">>
Rod == <<"R", "o", "d">>
Yard == <<"Y", "a", "r", "d">>
None == <<>>       \* Python None and "" (both falsy) for an optional text

\* ------------------------------------------------------------------ dates
\* A date argument is the text the caller passed.
NoDate == [kind |-> "none"]                      \* None
Iso(d) == [kind |-> "iso", day |-> d]            \* "2024-01-0d"
Unpadded(d) == [kind |-> "unpadded", day |-> d]  \* "2024-1-d"
Malformed == [kind |-> "malformed"]              \* "not-a-date"

DateArgs == {NoDate, Malformed, Unpadded(1)} \cup {Iso(d) : d \in 1..MaxDay}

truthy(s) == s.kind # "none"

\* datetime.strptime(s, "%Y-%m-%d") does not raise ValueError
strptime_ok(s) == s.kind \in {"iso", "unpadded"}

\* the day datetime.strptime(s, "%Y-%m-%d") returns
strptime(s) == s.day

\* datetime.now(), as a day
Today == MaxDay

\* SQLite compares the stored TEXT date with the bound parameter as text:
\* "2024-01-0d" sorts before "2024-1-..." and before "not-a-date".
date_le(stored, s) == IF s.kind = "iso" THEN stored <= s.day ELSE TRUE

date_ge(stored, s) == IF s.kind = "iso" THEN stored >= s.day ELSE FALSE

\* a window that forgets its upper bound
BETWEEN_lower_only(stored, s, e) == date_ge(stored, s)

\* v.date BETWEEN ? AND ?
BETWEEN(stored, s, e) == date_ge(stored, s) /\ date_le(stored, e)

\* ------------------------------------------------------------------ store
VARIABLES mst_ledger, mst_stock_item, mst_godown,
          trn_voucher, trn_accounting, trn_inventory,
          pc, call, result, queries,
          connection, attempts, files, clock, savers

store == <<mst_ledger, mst_stock_item, mst_godown,
           trn_voucher, trn_accounting, trn_inventory>>
\* what lies outside the store: the database connection of a running
\* execute_query, the delivery attempts of a communication call, the files of
\* the working directory, the wall clock, the callers saving an email
world == <<connection, attempts, files, clock, savers>>
tool == <<pc, call, result, queries>>
vars == <<mst_ledger, mst_stock_item, mst_godown,
          trn_voucher, trn_accounting, trn_inventory,
          pc, call, result, queries,
          connection, attempts, files, clock, savers>>

\* mst_ledger rows; is_revenue = -1 stands for NULL
LedgerRows == <<
    [name |-> Cash, alias |-> Petty, opening_balance |-> 1000,
     is_revenue |-> -1, is_deemedpositive |-> 1, parent |-> Bank],
    [name |-> Sales, alias |-> None, opening_balance |-> 0,
     is_revenue |-> 1, is_deemedpositive |-> 0, parent |-> Sales] >>

\* mst_stock_item rows: the item Axle is also known as Rod
StockItemRows == <<
    [name |-> Axle, alias |-> Rod, parent |-> None, opening_balance |-> 0],
    [name |-> Cam, alias |-> None, parent |-> None, opening_balance |-> 5],
    [name |-> Widget, alias |-> None, parent |-> None, opening_balance |-> 0] >>

\* mst_godown rows
GodownRows == << [name |-> Main, parent |-> None, address |-> None],
                [name |-> Yard, parent |-> Main, address |-> None] >>

\* the item and godown masters as the accounting system left them
Masters ==
    /\ mst_stock_item = StockItemRows
    /\ mst_godown = GodownRows

\* trn_voucher rows (guid is the primary key)
VoucherRows == <<
    [guid |-> 1, date |-> 2, voucher_type |-> Payment,
     voucher_number |-> 1, party_name |-> Acme],
    [guid |-> 2, date |-> 3, voucher_type |-> Sales,
     voucher_number |-> 2, party_name |-> Bolt] >>

AmountValues == <<-500, 0, 200>>
QuantityValues == <<-1, 0, 2>>

\* every row trn_accounting can hold: a voucher, a ledger, a signed amount
AccountingRows ==
    [k \in 1..(Len(VoucherRows) * Len(LedgerRows) * Len(AmountValues)) |->
        [guid |-> ((k - 1) \div (Len(LedgerRows) * Len(AmountValues))) + 1,
         ledger |-> LedgerRows[(((k - 1) \div Len(AmountValues)) % Len(LedgerRows)) + 1].name,
         amount |-> AmountValues[((k - 1) % Len(AmountValues)) + 1]]]

\* every row trn_inventory can hold; amount = quantity * rate
InventoryRows ==
    [k \in 1..(Len(VoucherRows) * Len(QuantityValues)) |->
        [guid |-> ((k - 1) \div Len(QuantityValues)) + 1,
         item |-> Widget, godown |-> Main,
         quantity |-> QuantityValues[((k - 1) % Len(QuantityValues)) + 1],
         rate |-> 10,
         amount |-> QuantityValues[((k - 1) % Len(QuantityValues)) + 1] * 10]]

\* tables of at most n rows, one representative per multiset of rows
Tables(rows, n) ==
    UNION { { [j \in 1..m |-> rows[ix[j]]] :
                ix \in { f \in [1..m -> 1..Len(rows)] :
                            \A j \in 1..(m - 1) : f[j] <= f[j + 1] } } :
            m \in 0..n }

NoCall == [op |-> "none"]
NoResult == [status |-> "none"]

\* no execute_query running, no connection open
NoConnection == [pc |-> "idle", module |-> "none", open |-> 0, failed |-> FALSE]

\* the callers of save_email_to_file
Savers == {1, 2}

Idle ==
    /\ pc = "idle"
    /\ call = NoCall
    /\ result = NoResult
    /\ queries = <<>>
    /\ connection = NoConnection
    /\ attempts = <<>>
    /\ files = {}
    /\ clock = 0
    /\ savers = [p \in Savers |-> [pc |-> "idle"]]

\* The store as the accounting system left it; no tool call made yet.
\* Ledgers of either nature with any entries (the balance tools read no
\* inventory).
InitBalance ==
    /\ \E nature \in [1..Len(LedgerRows) -> {0, 1}] :
         mst_ledger = [k \in 1..Len(LedgerRows) |->
                         [LedgerRows[k] EXCEPT !.is_deemedpositive = nature[k]]]
    /\ trn_voucher = VoucherRows
    /\ trn_accounting \in Tables(AccountingRows, MaxEntries)
    /\ trn_inventory = <<>>
    /\ Masters
    /\ Idle

\* Any entries and any inventory movements under the two vouchers.
Init ==
    /\ mst_ledger = LedgerRows
    /\ trn_voucher = VoucherRows
    /\ trn_accounting \in Tables(AccountingRows, MaxEntries)
    /\ trn_inventory \in Tables(InventoryRows, MaxEntries - Len(trn_accounting))
    /\ Masters
    /\ Idle

\* --------------------------------------------------------------- helpers
RECURSIVE sum(_)
sum(s) == IF s = <<>> THEN 0 ELSE Head(s) + sum(Tail(s))

abs(x) == IF x < 0 THEN -x ELSE x

\* left x right, every pair of rows (the FROM ... JOIN product)
cross(left, right) ==
    [k \in 1..(Len(left) * Len(right)) |->
        [l |-> left[((k - 1) \div Len(right)) + 1],
         r |-> right[((k - 1) % Len(right)) + 1]]]

\* FROM trn_accounting a JOIN trn_voucher v ON a.guid = v.guid
accounting_voucher ==
    LET on == SelectSeq(cross(trn_accounting, trn_voucher),
                        LAMBDA p : p.l.guid = p.r.guid)
    IN [k \in 1..Len(on) |-> [a |-> on[k].l, v |-> on[k].r]]

\* FROM trn_inventory i JOIN trn_voucher v ON i.guid = v.guid
inventory_voucher ==
    LET on == SelectSeq(cross(trn_inventory, trn_voucher),
                        LAMBDA p : p.l.guid = p.r.guid)
    IN [k \in 1..Len(on) |-> [i |-> on[k].l, v |-> on[k].r]]

amounts(rows) == [k \in 1..Len(rows) |-> rows[k].amount]

\* SUM(CASE WHEN amount > 0 THEN amount ELSE 0 END)
total_credits(xs) == sum([k \in 1..Len(xs) |-> IF xs[k] > 0 THEN xs[k] ELSE 0])

total_debits_signed(xs) == sum([k \in 1..Len(xs) |-> IF xs[k] < 0 THEN xs[k] ELSE 0])

\* SUM(CASE WHEN amount < 0 THEN ABS(amount) ELSE 0 END)
total_debits(xs) == sum([k \in 1..Len(xs) |-> IF xs[k] < 0 THEN abs(xs[k]) ELSE 0])

error(message) == [status |-> "error", error_message |-> message]

\* financial/inventory execute_query: the rows on success, [] when the
\* connection or the statement raised (the exception is swallowed)
execute_query(rows, ok) == IF ok THEN rows ELSE <<>>

ran(name, ok) == [query |-> name, ok |-> ok]

\* ------------------------------------------------- financial/tools/tools.py
\* WHERE l.name LIKE ? OR l.alias LIKE ?   with  ? = %account_name%
\* the permutations of rows that ORDER BY allows: before(x, y) says x may
\* come before y; rows that tie come in an order the store chooses
Orderings(rows, before(_, _)) ==
    { [k \in 1..Len(rows) |-> rows[f[k]]] :
        f \in { g \in [1..Len(rows) -> 1..Len(rows)] :
                  /\ \A i, j \in 1..Len(rows) : i # j => g[i] # g[j]
                  /\ \A i, j \in 1..Len(rows) :
                        i < j => before(rows[g[i]], rows[g[j]]) } }

\* (no ORDER BY: the matching rows in whatever order the store yields them)
ledger_query(account_name) ==
    Orderings(SelectSeq(mst_ledger,
                  LAMBDA l : LIKE(l.name, account_name) \/ LIKE(l.alias, account_name)),
              LAMBDA x, y : TRUE)

transaction_query_before(ledger, as_of_date) ==
    IF truthy(as_of_date)
    THEN LET rows == SelectSeq(accounting_voucher,
                        LAMBDA p : p.a.ledger = ledger
                                   /\ date_le(p.v.date + 1, as_of_date))
         IN [k \in 1..Len(rows) |-> rows[k].a.amount]
    ELSE amounts(SelectSeq(trn_accounting, LAMBDA a : a.ledger = ledger))

\* the entries the balance is summed over: WHERE a.ledger = ? AND v.date <= ?
\* through the voucher join when as_of_date is given, WHERE a.ledger = ? alone
\* when it is not
transaction_query(ledger, as_of_date) ==
    IF truthy(as_of_date)
    THEN LET rows == SelectSeq(accounting_voucher,
                        LAMBDA p : p.a.ledger = ledger /\ date_le(p.v.date, as_of_date))
         IN [k \in 1..Len(rows) |-> rows[k].a.amount]
    ELSE amounts(SelectSeq(trn_accounting, LAMBDA a : a.ledger = ledger))

closing_balance_swapped(opening_balance, credits, debits, is_deemedpositive) ==
    IF is_deemedpositive = 1
    THEN opening_balance + credits - debits
    ELSE opening_balance + debits - credits

\* closing balance by account nature
closing_balance(opening_balance, credits, debits, is_deemedpositive) ==
    IF is_deemedpositive = 1
    THEN opening_balance + debits - credits
    ELSE opening_balance + credits - debits

get_account_balance(account_name, as_of_date, rows, down) ==
    IF truthy(as_of_date) /\ ~strptime_ok(as_of_date)
    THEN [result |-> error("Invalid date format"), queries |-> <<>>]
    ELSE
    LET ledger_results == execute_query(rows, 1 \notin down)
        q1 == <<ran("ledger_query", 1 \notin down)>>
    IN
    IF ledger_results = <<>>
    THEN [result |-> error("Account not found"), queries |-> q1]
    ELSE
    LET ledger == ledger_results[1]
        entries == transaction_query(ledger.name, as_of_date)
        \* one aggregate row, COALESCE(SUM(...), 0)
        transaction_results ==
            execute_query(<<[total_credits |-> total_credits(entries),
                             total_debits |-> total_debits(entries)]>>,
                          2 \notin down)
        credits == IF transaction_results # <<>>
                   THEN transaction_results[1].total_credits ELSE 0
        debits == IF transaction_results # <<>>
                  THEN transaction_results[1].total_debits ELSE 0
    IN [result |->
            [status |-> "success",
             account_name |-> ledger.name,
             balance |-> closing_balance(ledger.opening_balance, credits, debits,
                                         ledger.is_deemedpositive),
             opening_balance |-> ledger.opening_balance,
             total_credits |-> credits,
             total_debits |-> debits,
             as_of_date |-> IF truthy(as_of_date) THEN as_of_date ELSE Iso(Today),
             account_type |-> ledger.parent],
        queries |-> q1 \o <<ran("transaction_query", 2 \notin down)>>]

\* try: strptime(start), strptime(end), start_dt > end_dt; the error payload
\* the validation returns, or NoResult when the window passes.  A None
\* makes strptime raise TypeError, which only the outer handler catches.
validate_date_range(start_date, end_date, tool_error) ==
    IF ~truthy(start_date) THEN error(tool_error)
    ELSE IF ~strptime_ok(start_date) THEN error("Invalid date format")
    ELSE IF ~truthy(end_date) THEN error(tool_error)
    ELSE IF ~strptime_ok(end_date) THEN error("Invalid date format")
    ELSE IF strptime(start_date) > strptime(end_date)
         THEN error("Start date cannot be after end date")
    ELSE NoResult

\* WHERE v.date BETWEEN ? AND ? AND (a.ledger LIKE '%Cash%' OR
\* a.ledger LIKE '%Bank%') ORDER BY v.date
cash_flow_query(start_date, end_date) ==
    LET rows == SelectSeq(accounting_voucher,
                    LAMBDA p : /\ BETWEEN(p.v.date, start_date, end_date)
                               /\ (LIKE(p.a.ledger, Cash) \/ LIKE(p.a.ledger, Bank)))
        flat == [k \in 1..Len(rows) |->
                    [date |-> rows[k].v.date,
                     voucher_type |-> rows[k].v.voucher_type,
                     party_name |-> rows[k].v.party_name,
                     ledger |-> rows[k].a.ledger,
                     amount |-> rows[k].a.amount]]
    IN Orderings(flat, LAMBDA x, y : x.date <= y.date)

get_cash_flow(start_date, end_date, rows, down) ==
    LET invalid == validate_date_range(start_date, end_date,
                                       "Error fetching cash flow data")
    IN
    IF invalid # NoResult THEN [result |-> invalid, queries |-> <<>>]
    ELSE
    LET results == execute_query(rows, 1 \notin down)
        q1 == <<ran("cash_flow_query", 1 \notin down)>>
    IN
    IF results = <<>>
    THEN [result |-> [status |-> "no_data",
                      error_message |-> "No cash transactions found for period",
                      start_date |-> start_date,
                      end_date |-> end_date],
          queries |-> q1]
    ELSE
    LET total_inflow == total_credits(amounts(results))
        total_outflow == total_debits(amounts(results))
        types == {results[k].voucher_type : k \in 1..Len(results)}
        of_type(t) == amounts(SelectSeq(results, LAMBDA row : row.voucher_type = t))
    IN [result |->
            [status |-> "success",
             start_date |-> start_date,
             end_date |-> end_date,
             total_inflow |-> total_inflow,
             total_outflow |-> total_outflow,
             net_cash_flow |-> total_inflow - total_outflow,
             transaction_count |-> Len(results),
             cash_flow_by_type |->
                 [t \in types |-> [inflow |-> total_credits(of_type(t)),
                                    outflow |-> total_debits(of_type(t)),
                                    count |-> Len(of_type(t))]]],
        queries |-> q1]

\* FROM trn_accounting a JOIN mst_ledger l ON a.ledger = l.name
\* JOIN trn_voucher v ON a.guid = v.guid WHERE v.date BETWEEN ? AND ?
\* AND l.is_revenue IS NOT NULL GROUP BY a.ledger, l.is_revenue, l.parent
\* ORDER BY l.is_revenue DESC, a.ledger
pl_query(start_date, end_date) ==
    LET ledgers == SelectSeq(mst_ledger, LAMBDA l : l.is_revenue # -1)
        of_ledger(l) ==
            SelectSeq(accounting_voucher,
                LAMBDA p : p.a.ledger = l.name
                           /\ BETWEEN(p.v.date, start_date, end_date))
        groups == SelectSeq(ledgers, LAMBDA l : of_ledger(l) # <<>>)
        rows == [k \in 1..Len(groups) |->
                    [account_name |-> groups[k].name,
                     is_revenue |-> groups[k].is_revenue,
                     parent |-> groups[k].parent,
                     net_amount |->
                         sum([j \in 1..Len(of_ledger(groups[k])) |->
                                 of_ledger(groups[k])[j].a.amount])]]
    IN Orderings(rows, LAMBDA x, y :
            \/ x.is_revenue > y.is_revenue
            \/ x.is_revenue = y.is_revenue /\ text_le(x.account_name, y.account_name))

get_profit_loss(start_date, end_date, rows, down) ==
    LET invalid == validate_date_range(start_date, end_date,
                                       "Error fetching profit loss data")
    IN
    IF invalid # NoResult THEN [result |-> invalid, queries |-> <<>>]
    ELSE
    LET results == execute_query(rows, 1 \notin down)
        q1 == <<ran("pl_query", 1 \notin down)>>
    IN
    IF results = <<>>
    THEN [result |-> [status |-> "no_data",
                      error_message |-> "No P&L data found for period",
                      start_date |-> start_date,
                      end_date |-> end_date],
          queries |-> q1]
    ELSE
    LET info(row) == [account_name |-> row.account_name,
                      parent |-> row.parent,
                      amount |-> abs(row.net_amount)]
        income == SelectSeq(results, LAMBDA row : row.is_revenue = 1)
        expense == SelectSeq(results, LAMBDA row : row.is_revenue # 1)
        total_income == sum([k \in 1..Len(income) |-> abs(income[k].net_amount)])
        total_expenses == sum([k \in 1..Len(expense) |-> abs(expense[k].net_amount)])
    IN [result |->
            [status |-> "success",
             start_date |-> start_date,
             end_date |-> end_date,
             total_income |-> total_income,
             total_expenses |-> total_expenses,
             net_profit |-> total_income - total_expenses,
             income_accounts |-> [k \in 1..Len(income) |-> info(income[k])],
             expense_accounts |-> [k \in 1..Len(expense) |-> info(expense[k])]],
        queries |-> q1]

\* days of the implicit lookback of get_payment_receipts
LookbackDays == 180

\* v.voucher_type LIKE '%Payment%' / '%Receipt%' / either
voucher_filter(transaction_type, voucher_type) ==
    IF transaction_type = "payment" THEN LIKE(voucher_type, Payment)
    ELSE IF transaction_type = "receipt" THEN LIKE(voucher_type, Receipt)
    ELSE LIKE(voucher_type, Payment) \/ LIKE(voucher_type, Receipt)

LIMIT_last(rows, n) ==
    IF n < 0 \/ n >= Len(rows) THEN rows
    ELSE SubSeq(rows, Len(rows) - n + 1, Len(rows))

\* LIMIT n: the first n rows; a negative n is no limit
LIMIT(rows, n) ==
    IF n < 0 THEN rows
    ELSE SubSeq(rows, 1, IF n < Len(rows) THEN n ELSE Len(rows))

\* FROM trn_voucher v JOIN trn_accounting a ON v.guid = a.guid
\* WHERE {voucher_filter} AND v.date BETWEEN ? AND ? [AND v.party_name LIKE ?]
\* GROUP BY v.voucher_number, ... ORDER BY v.date DESC, v.voucher_number DESC
\* [LIMIT n]
payment_receipts_query(transaction_type, start_date, end_date, party_name, limit) ==
    LET entries(v) == SelectSeq(trn_accounting, LAMBDA a : a.guid = v.guid)
        groups == SelectSeq(trn_voucher,
                    LAMBDA v : /\ entries(v) # <<>>
                               /\ voucher_filter(transaction_type, v.voucher_type)
                               /\ BETWEEN(v.date, start_date, end_date)
                               /\ (party_name # None => LIKE(v.party_name, party_name)))
        rows == [k \in 1..Len(groups) |->
                    [voucher_number |-> groups[k].voucher_number,
                     voucher_type |-> groups[k].voucher_type,
                     date |-> groups[k].date,
                     party_name |-> groups[k].party_name,
                     total_amount |->
                         sum([j \in 1..Len(entries(groups[k])) |->
                                 abs(entries(groups[k])[j].amount)])]]
        ordered == Orderings(rows, LAMBDA x, y :
                      \/ x.date > y.date
                      \/ x.date = y.date /\ x.voucher_number >= y.voucher_number)
    IN IF limit # 0 THEN {LIMIT(r, limit) : r \in ordered} ELSE ordered

\* the window the query runs over: today - 180 days .. today unless both
\* dates are given
payment_receipts_window(start_date, end_date, now) ==
    IF ~truthy(start_date) \/ ~truthy(end_date)
    THEN [start_date |-> Iso(now - LookbackDays), end_date |-> Iso(now)]
    ELSE [start_date |-> start_date, end_date |-> end_date]

get_payment_receipts(transaction_type, start_date, end_date, rows, down) ==
    IF transaction_type \notin {"payment", "receipt", "both"}
    THEN [result |-> error("Transaction type must be 'payment', 'receipt', or 'both'"),
          queries |-> <<>>]
    ELSE IF ~strptime_ok(start_date) \/ ~strptime_ok(end_date)
    THEN [result |-> error("Invalid date format"), queries |-> <<>>]
    ELSE IF strptime(start_date) > strptime(end_date)
    THEN [result |-> error("Start date cannot be after end date"), queries |-> <<>>]
    ELSE
    LET results == execute_query(rows, 1 \notin down)
        q1 == <<ran("payment_receipts_query", 1 \notin down)>>
    IN
    IF results = <<>>
    THEN [result |-> [status |-> "no_data",
                      error_message |-> "No transactions found for period",
                      transaction_type |-> transaction_type,
                      start_date |-> start_date,
                      end_date |-> end_date],
          queries |-> q1]
    ELSE [result |->
            [status |-> "success",
             transaction_type |-> transaction_type,
             start_date |-> start_date,
             end_date |-> end_date,
             transactions |->
                 [k \in 1..Len(results) |->
                     [voucher_number |-> results[k].voucher_number,
                      voucher_type |-> results[k].voucher_type,
                      date |-> results[k].date,
                      party_name |-> results[k].party_name,
                      amount |-> results[k].total_amount]],
             total_amount |-> sum([k \in 1..Len(results) |-> results[k].total_amount]),
             transaction_count |-> Len(results)],
          queries |-> q1]

\* the naive query: the latest rows first, the party filter after the limit
latest_transactions_query_limit_first(transaction_type, limit, party_name) ==
    LET entries(v) == SelectSeq(trn_accounting, LAMBDA a : a.guid = v.guid)
        groups == SelectSeq(trn_voucher,
                    LAMBDA v : /\ entries(v) # <<>>
                               /\ voucher_filter(transaction_type, v.voucher_type))
        rows == [k \in 1..Len(groups) |->
                    [voucher_number |-> groups[k].voucher_number,
                     voucher_type |-> groups[k].voucher_type,
                     date |-> groups[k].date,
                     party_name |-> groups[k].party_name,
                     total_amount |->
                         sum([j \in 1..Len(entries(groups[k])) |->
                                 abs(entries(groups[k])[j].amount)])]]
    IN {SelectSeq(LIMIT(r, limit),
                  LAMBDA row : party_name # None => LIKE(row.party_name, party_name)) :
          r \in Orderings(rows, LAMBDA x, y :
                  \/ x.date > y.date
                  \/ x.date = y.date /\ x.voucher_number >= y.voucher_number)}

\* FROM trn_voucher v JOIN trn_accounting a ON v.guid = a.guid
\* WHERE {voucher_filter} [AND v.party_name LIKE ?] GROUP BY v.voucher_number, ...
\* ORDER BY v.date DESC, v.voucher_number DESC LIMIT {limit}
latest_transactions_query(transaction_type, limit, party_name) ==
    LET entries(v) == SelectSeq(trn_accounting, LAMBDA a : a.guid = v.guid)
        groups == SelectSeq(trn_voucher,
                    LAMBDA v : /\ entries(v) # <<>>
                               /\ voucher_filter(transaction_type, v.voucher_type)
                               /\ (party_name # None => LIKE(v.party_name, party_name)))
        rows == [k \in 1..Len(groups) |->
                    [voucher_number |-> groups[k].voucher_number,
                     voucher_type |-> groups[k].voucher_type,
                     date |-> groups[k].date,
                     party_name |-> groups[k].party_name,
                     total_amount |->
                         sum([j \in 1..Len(entries(groups[k])) |->
                                 abs(entries(groups[k])[j].amount)])]]
    IN {LIMIT(r, limit) :
          r \in Orderings(rows, LAMBDA x, y :
                  \/ x.date > y.date
                  \/ x.date = y.date /\ x.voucher_number >= y.voucher_number)}

returned_date_range_first_row(transactions) ==
    [oldest_date |-> transactions[1].date, latest_date |-> transactions[1].date]

\* latest_date = transactions[0]['date'], oldest_date = transactions[-1]['date']
returned_date_range(transactions) ==
    [oldest_date |-> transactions[Len(transactions)].date,
     latest_date |-> transactions[1].date]

get_latest_transactions(transaction_type, limit, rows, down) ==
    IF transaction_type \notin {"payment", "receipt", "both"}
    THEN [result |-> error("Transaction type must be 'payment', 'receipt', or 'both'"),
          queries |-> <<>>]
    ELSE
    LET results == execute_query(rows, 1 \notin down)
        q1 == <<ran("latest_transactions_query", 1 \notin down)>>
    IN
    IF results = <<>>
    THEN [result |-> [status |-> "no_data",
                      error_message |-> "No transactions found",
                      transaction_type |-> transaction_type],
          queries |-> q1]
    ELSE
    LET transactions == [k \in 1..Len(results) |->
                            [voucher_number |-> results[k].voucher_number,
                             voucher_type |-> results[k].voucher_type,
                             date |-> results[k].date,
                             party_name |-> results[k].party_name,
                             amount |-> results[k].total_amount]]
    IN [result |->
            [status |-> "success",
             transaction_type |-> transaction_type,
             transactions |-> transactions,
             total_amount |-> sum([k \in 1..Len(results) |-> results[k].total_amount]),
             transaction_count |-> Len(transactions),
             date_range |-> returned_date_range(transactions),
             limit |-> limit],
        queries |-> q1]

\* ------------------------------------------------- inventory/tools/tools.py
movement_type(quantity) ==
    IF quantity > 0 THEN "IN" ELSE IF quantity < 0 THEN "OUT" ELSE "NEUTRAL"

\* FROM trn_inventory i JOIN trn_voucher v ON i.guid = v.guid
\* WHERE v.date BETWEEN ? AND ? [AND i.item LIKE ?] ORDER BY v.date DESC, i.item
stock_movements_query(start_date, end_date, item_name) ==
    LET rows == SelectSeq(inventory_voucher,
                    LAMBDA p : /\ BETWEEN(p.v.date, start_date, end_date)
                               /\ (item_name # None => LIKE(p.i.item, item_name)))
        flat == [k \in 1..Len(rows) |->
                    [item |-> rows[k].i.item,
                     godown |-> rows[k].i.godown,
                     quantity |-> rows[k].i.quantity,
                     rate |-> rows[k].i.rate,
                     amount |-> rows[k].i.amount,
                     date |-> rows[k].v.date,
                     voucher_type |-> rows[k].v.voucher_type,
                     voucher_number |-> rows[k].v.voucher_number,
                     party_name |-> rows[k].v.party_name,
                     movement_type |-> movement_type(rows[k].i.quantity)]]
    IN Orderings(flat, LAMBDA x, y :
            \/ x.date > y.date
            \/ x.date = y.date /\ text_le(x.item, y.item))

get_stock_movements(start_date, end_date, rows, down) ==
    LET invalid == validate_date_range(start_date, end_date,
                                       "Error retrieving stock movements")
    IN
    IF invalid # NoResult THEN [result |-> invalid, queries |-> <<>>]
    ELSE
    LET results == execute_query(rows, 1 \notin down)
        q1 == <<ran("stock_movements_query", 1 \notin down)>>
    IN
    IF results = <<>>
    THEN [result |-> [status |-> "no_data",
                      error_message |-> "No stock movements found for period",
                      start_date |-> start_date,
                      end_date |-> end_date],
          queries |-> q1]
    ELSE
    LET quantity_of(type) ==
            sum([k \in 1..Len(results) |->
                    IF results[k].movement_type = type
                    THEN abs(results[k].quantity) ELSE 0])
    IN [result |->
            [status |-> "success",
             start_date |-> start_date,
             end_date |-> end_date,
             movements |-> results,
             summary |-> [total_movements |-> Len(results),
                          total_in |-> quantity_of("IN"),
                          total_out |-> quantity_of("OUT"),
                          net_movement |-> quantity_of("IN") - quantity_of("OUT")]],
        queries |-> q1]

\* ------------------------------------------------- financial/tools/tools.py
\* FROM mst_ledger l LEFT JOIN trn_accounting a ON l.name = a.ledger
\* [WHERE l.parent LIKE ?] GROUP BY l.name, ...: one row per ledger
ledger_summary_query(account_type) ==
    LET ledgers == IF account_type # None
                   THEN SelectSeq(mst_ledger, LAMBDA l : LIKE(l.parent, account_type))
                   ELSE mst_ledger
    IN [k \in 1..Len(ledgers) |->
          LET entries == amounts(SelectSeq(trn_accounting,
                                           LAMBDA a : a.ledger = ledgers[k].name))
          IN [account_name |-> ledgers[k].name,
              opening_balance |-> ledgers[k].opening_balance,
              parent |-> ledgers[k].parent,
              is_revenue |-> ledgers[k].is_revenue,
              is_deemedpositive |-> ledgers[k].is_deemedpositive,
              total_credits |-> total_credits(entries),
              total_debits |-> total_debits(entries)]]

get_ledger_summary(account_type, include_zero_balance, down) ==
    LET results == execute_query(ledger_summary_query(account_type), 1 \notin down)
        q1 == <<ran("ledger_summary_query", 1 \notin down)>>
    IN
    IF results = <<>>
    THEN [result |-> [status |-> "no_data",
                      error_message |-> "No ledger accounts found"],
          queries |-> q1]
    ELSE
    LET closing(row) == closing_balance(row.opening_balance, row.total_credits,
                                        row.total_debits, row.is_deemedpositive)
        kept == SelectSeq(results,
                    LAMBDA row : ~(~include_zero_balance /\ closing(row) = 0
                                   /\ row.opening_balance = 0))
        accounts == [k \in 1..Len(kept) |->
                        [account_name |-> kept[k].account_name,
                         balance |-> closing(kept[k]),
                         opening_balance |-> kept[k].opening_balance,
                         parent |-> kept[k].parent,
                         account_nature |-> IF kept[k].is_deemedpositive = 1
                                            THEN "Debit" ELSE "Credit",
                         is_revenue |-> kept[k].is_revenue # 0]]
    IN [result |-> [status |-> "success",
                    accounts |-> accounts,
                    total_accounts |-> Len(accounts),
                    total_balance |-> sum([k \in 1..Len(accounts) |-> accounts[k].balance])],
        queries |-> q1]

\* ----------------------------------------------------- sales/tools/tools.py
\* the error payload of the sales, purchase and manager tools
failure_failed(message) == [status |-> "failed", message |-> message]

failure(message) == [status |-> "error", message |-> message]

RECURSIVE concat(_)
concat(ss) == IF ss = <<>> THEN <<>> ELSE Head(ss) \o concat(Tail(ss))

\* the right side of a LEFT JOIN: each matching row, or one NULL row (<<>>)
outer(rows) ==
    IF rows = <<>> THEN << <<>> >> ELSE [k \in 1..Len(rows) |-> <<rows[k]>>]

\* FROM trn_voucher v LEFT JOIN trn_accounting a ON v.guid = a.guid
voucher_left_accounting ==
    concat([j \in 1..Len(trn_voucher) |->
        LET a == outer(SelectSeq(trn_accounting,
                                 LAMBDA row : row.guid = trn_voucher[j].guid))
        IN [k \in 1..Len(a) |-> [v |-> trn_voucher[j], a |-> a[k], i |-> <<>>]]])

\* ... LEFT JOIN trn_inventory i ON v.guid = i.guid
voucher_left_accounting_inventory ==
    concat([j \in 1..Len(voucher_left_accounting) |->
        LET i == outer(SelectSeq(trn_inventory,
                         LAMBDA row : row.guid = voucher_left_accounting[j].v.guid))
        IN [k \in 1..Len(i) |-> [voucher_left_accounting[j] EXCEPT !.i = i[k]]]])

\* if date_from: v.date >= '{date_from}'; if date_to: v.date <= '{date_to}'
date_conditions(stored, date_from, date_to) ==
    /\ (truthy(date_from) => date_ge(stored, date_from))
    /\ (truthy(date_to) => date_le(stored, date_to))

\* CASE WHEN a.amount > 0 THEN a.amount ELSE 0 END
positive_amount(row) ==
    IF row.a # <<>> /\ row.a[1].amount > 0 THEN row.a[1].amount ELSE 0

\* CASE WHEN i.quantity > 0 THEN i.quantity ELSE 0 END
positive_quantity(row) ==
    IF row.i # <<>> /\ row.i[1].quantity > 0 THEN row.i[1].quantity ELSE 0

\* round(num / den, 2), as a number of hundredths (ties to even)
round_2(num, den) ==
    LET q == (num * 100) \div den
        r == (num * 100) % den
    IN IF 2 * r > den \/ (2 * r = den /\ q % 2 = 1) THEN q + 1 ELSE q

\* COUNT(DISTINCT v.column)
count_distinct_v(rows, column) ==
    Cardinality({rows[k].v[column] : k \in 1..Len(rows)})

\* COUNT(DISTINCT i.column): NULLs are not counted
count_distinct_i(rows, column) ==
    Cardinality({rows[k].i[1][column] :
                    k \in {j \in 1..Len(rows) : rows[j].i # <<>>}})

\* MIN(v.date) and MAX(v.date) as the text the store returns, NULL over no rows
min_date(rows) ==
    IF rows = <<>> THEN NoDate
    ELSE Iso(CHOOSE d \in {rows[k].v.date : k \in 1..Len(rows)} :
                \A k \in 1..Len(rows) : d <= rows[k].v.date)

max_date(rows) ==
    IF rows = <<>> THEN NoDate
    ELSE Iso(CHOOSE d \in {rows[k].v.date : k \in 1..Len(rows)} :
                \A k \in 1..Len(rows) : d >= rows[k].v.date)

revenue(rows) == sum([k \in 1..Len(rows) |-> positive_amount(rows[k])])

quantity(rows) == sum([k \in 1..Len(rows) |-> positive_quantity(rows[k])])

\* SUM(a.amount) over rows that passed a.amount > 0
spending(rows) == sum([k \in 1..Len(rows) |-> rows[k].a[1].amount])

\* the rows of a set in some order
RECURSIVE listing(_)
listing(S) ==
    IF S = {} THEN <<>>
    ELSE LET x == CHOOSE x \in S : TRUE IN <<x>> \o listing(S \ {x})

\* GROUP BY v.party_name: the groups of joined rows, one per party
by_party(rows) ==
    LET parties == listing({rows[k].v.party_name : k \in 1..Len(rows)})
    IN [p \in 1..Len(parties) |->
          SelectSeq(rows, LAMBDA row : row.v.party_name = parties[p])]

\* WHERE {where_clause}: one aggregate row, whatever matches
sales_summary_query(date_from, date_to, customer, voucher_type) ==
    LET rows == SelectSeq(voucher_left_accounting,
                    LAMBDA row :
                        /\ date_conditions(row.v.date, date_from, date_to)
                        /\ (customer # None => LIKE(row.v.party_name, customer))
                        /\ (voucher_type # None => row.v.voucher_type = voucher_type))
    IN << [total_transactions |-> count_distinct_v(rows, "voucher_number"),
           unique_customers |-> count_distinct_v(rows, "party_name"),
           total_revenue |-> revenue(rows),
           avg_transaction_value |->
               IF rows = <<>> THEN 0 ELSE round_2(revenue(rows), Len(rows)),
           earliest_date |-> min_date(rows),
           latest_date |-> max_date(rows),
           voucher_types |-> count_distinct_v(rows, "voucher_type")] >>

get_sales_summary(date_from, date_to, customer, voucher_type, down) ==
    LET result_ == execute_query(
                       sales_summary_query(date_from, date_to, customer, voucher_type),
                       1 \notin down)
        q1 == <<ran("sales_summary_query", 1 \notin down)>>
    IN
    IF result_ # <<>>
    THEN [result |->
            [status |-> "success",
             summary |->
                 [total_transactions |-> result_[1].total_transactions,
                  unique_customers |-> result_[1].unique_customers,
                  total_revenue |-> result_[1].total_revenue,
                  avg_transaction_value |-> result_[1].avg_transaction_value,
                  period |-> <<result_[1].earliest_date, result_[1].latest_date>>,
                  voucher_types |-> result_[1].voucher_types],
             filters_applied |->
                 [date_from |-> date_from, date_to |-> date_to,
                  customer |-> customer, voucher_type |-> voucher_type]],
          queries |-> q1]
    ELSE [result |-> failure("No sales data found"), queries |-> q1]

\* WHERE v.party_name IS NOT NULL [AND v.party_name LIKE ..] [AND dates]
\* GROUP BY v.party_name ORDER BY total_revenue DESC
customer_query(customer, date_from, date_to) ==
    LET rows == SelectSeq(voucher_left_accounting,
                    LAMBDA row :
                        /\ (customer # None => LIKE(row.v.party_name, customer))
                        /\ date_conditions(row.v.date, date_from, date_to))
        groups == by_party(rows)
        grouped == [g \in 1..Len(groups) |->
                      [party_name |-> groups[g][1].v.party_name,
                       transaction_count |-> count_distinct_v(groups[g], "voucher_number"),
                       total_revenue |-> revenue(groups[g]),
                       avg_transaction_value |->
                           round_2(revenue(groups[g]), Len(groups[g])),
                       first_transaction |-> min_date(groups[g]),
                       last_transaction |-> max_date(groups[g]),
                       voucher_types_used |-> count_distinct_v(groups[g], "voucher_type")]]
    IN Orderings(grouped, LAMBDA x, y : x.total_revenue >= y.total_revenue)

get_customer_analysis(analysis_type, rows, down) ==
    LET result_ == execute_query(rows, 1 \notin down)
        q1 == <<ran("customer_query", 1 \notin down)>>
    IN
    IF result_ # <<>>
    THEN [result |->
            [status |-> "success",
             customers |->
                 [k \in 1..Len(result_) |->
                     [customer_name |-> result_[k].party_name,
                      transaction_count |-> result_[k].transaction_count,
                      total_revenue |-> result_[k].total_revenue,
                      avg_transaction_value |-> result_[k].avg_transaction_value,
                      first_transaction |-> result_[k].first_transaction,
                      last_transaction |-> result_[k].last_transaction,
                      voucher_types_used |-> result_[k].voucher_types_used]],
             total_customers |-> Len(result_),
             analysis_type |-> analysis_type],
          queries |-> q1]
    ELSE [result |-> failure("No customer data found"), queries |-> q1]

\* the text of a number as strftime pads it: two digits
Digits == <<"0", "1", "2", "3", "4", "5", "6", "7", "8", "9">>

two_digits(n) == <<Digits[((n \div 10) % 10) + 1], Digits[(n % 10) + 1]>>

\* the year and the month of the stored dates 2024-01-0d, as text
Year == <<"2", "0", "2", "4">>
Month == two_digits(1)

\* the grouping key of a voucher date 2024-01-0d: DATE(v.date) is the date
\* itself; strftime('%Y-%W', v.date) is the year and the week of the year as
\* two digits (2024-01-01 is a Monday, so days 1..7 are week 01);
\* strftime('%Y-%m', v.date) is the year and the month; any other period
\* groups by month
date_group(period, day) ==
    IF period = "daily" THEN Year \o <<"-">> \o Month \o <<"-">> \o two_digits(day)
    ELSE IF period = "weekly"
    THEN Year \o <<"-">> \o two_digits(((day - 1) \div 7) + 1)
    ELSE IF period = "monthly" THEN Year \o <<"-">> \o Month
    ELSE Year \o <<"-">> \o Month

\* GROUP BY {date_group}: the groups of joined rows, one per period key
by_period(rows, period) ==
    LET keys == listing({date_group(period, rows[k].v.date) : k \in 1..Len(rows)})
    IN [p \in 1..Len(keys) |->
          SelectSeq(rows, LAMBDA row : date_group(period, row.v.date) = keys[p])]

\* WHERE {where_clause} GROUP BY {date_group} ORDER BY period
revenue_query(period, date_from, date_to) ==
    LET rows == SelectSeq(voucher_left_accounting,
                    LAMBDA row : date_conditions(row.v.date, date_from, date_to))
        groups == by_period(rows, period)
        grouped == [g \in 1..Len(groups) |->
                      [period |-> date_group(period, groups[g][1].v.date),
                       transaction_count |-> count_distinct_v(groups[g], "voucher_number"),
                       revenue |-> revenue(groups[g]),
                       avg_transaction_value |->
                           round_2(revenue(groups[g]), Len(groups[g])),
                       unique_customers |-> count_distinct_v(groups[g], "party_name")]]
    IN Orderings(grouped, LAMBDA x, y : text_le(x.period, y.period))

get_revenue_analysis(period, rows, down) ==
    LET result_ == execute_query(rows, 1 \notin down)
        q1 == <<ran("revenue_query", 1 \notin down)>>
    IN
    IF result_ # <<>>
    THEN [result |->
            [status |-> "success",
             revenue_analysis |-> result_,
             period_type |-> period,
             total_periods |-> Len(result_)],
          queries |-> q1]
    ELSE [result |-> failure("No revenue data found"), queries |-> q1]

\* ORDER BY total_revenue DESC / transaction_count DESC / total_quantity DESC;
\* any other metric orders by total_revenue
top_customers_order(metric) ==
    IF metric = "revenue" THEN "total_revenue"
    ELSE IF metric = "transactions" THEN "transaction_count"
    ELSE IF metric = "quantity" THEN "total_quantity"
    ELSE "total_revenue"

\* FROM trn_voucher v LEFT JOIN trn_accounting a LEFT JOIN trn_inventory i
\* WHERE v.party_name IS NOT NULL [AND dates] GROUP BY v.party_name
\* ORDER BY {order_by} LIMIT {limit}
top_customers_query(metric, limit, date_from, date_to) ==
    LET rows == SelectSeq(voucher_left_accounting_inventory,
                    LAMBDA row : date_conditions(row.v.date, date_from, date_to))
        groups == by_party(rows)
        grouped == [g \in 1..Len(groups) |->
                      [party_name |-> groups[g][1].v.party_name,
                       transaction_count |-> count_distinct_v(groups[g], "voucher_number"),
                       total_revenue |-> revenue(groups[g]),
                       total_quantity |-> quantity(groups[g]),
                       avg_transaction_value |->
                           round_2(revenue(groups[g]), Len(groups[g]))]]
        order_by == top_customers_order(metric)
    IN {LIMIT(r, limit) :
          r \in Orderings(grouped, LAMBDA x, y : x[order_by] >= y[order_by])}

get_top_customers(metric, limit, rows, down) ==
    LET result_ == execute_query(rows, 1 \notin down)
        q1 == <<ran("top_customers_query", 1 \notin down)>>
    IN
    IF result_ # <<>>
    THEN [result |->
            [status |-> "success",
             top_customers |->
                 [k \in 1..Len(result_) |->
                     [customer_name |-> result_[k].party_name,
                      transaction_count |-> result_[k].transaction_count,
                      total_revenue |-> result_[k].total_revenue,
                      total_quantity |-> result_[k].total_quantity,
                      avg_transaction_value |-> result_[k].avg_transaction_value]],
             metric |-> metric,
             limit |-> limit,
             count |-> Len(result_)],
          queries |-> q1]
    ELSE [result |-> failure("No customer data found"), queries |-> q1]

\* WHERE {where_clause}: one aggregate row over both LEFT JOINs
sales_performance_query(date_from, date_to) ==
    LET rows == SelectSeq(voucher_left_accounting_inventory,
                    LAMBDA row : date_conditions(row.v.date, date_from, date_to))
    IN << [total_transactions |-> count_distinct_v(rows, "voucher_number"),
           unique_customers |-> count_distinct_v(rows, "party_name"),
           total_revenue |-> revenue(rows),
           avg_transaction_value |->
               IF rows = <<>> THEN 0 ELSE round_2(revenue(rows), Len(rows)),
           total_quantity |-> quantity(rows),
           voucher_types |-> count_distinct_v(rows, "voucher_type"),
           active_days |-> count_distinct_v(rows, "date")] >>

get_sales_performance(date_from, date_to, down) ==
    LET result_ == execute_query(sales_performance_query(date_from, date_to),
                                 1 \notin down)
        q1 == <<ran("sales_performance_query", 1 \notin down)>>
    IN
    IF result_ # <<>>
    THEN LET performance == result_[1]
             active_days == IF performance.active_days > 1
                            THEN performance.active_days ELSE 1
         IN [result |->
               [status |-> "success",
                performance_metrics |->
                    [total_transactions |-> performance.total_transactions,
                     unique_customers |-> performance.unique_customers,
                     total_revenue |-> performance.total_revenue,
                     avg_transaction_value |-> performance.avg_transaction_value,
                     total_quantity |-> performance.total_quantity,
                     voucher_types |-> performance.voucher_types,
                     active_days |-> performance.active_days,
                     avg_daily_revenue |->
                         round_2(performance.total_revenue, active_days)],
                period |-> IF truthy(date_from) /\ truthy(date_to)
                           THEN <<date_from, date_to>> ELSE <<>>],
             queries |-> q1]
    ELSE [result |-> failure("No performance data found"), queries |-> q1]

\* -------------------------------------------------- purchase/tools/tools.py
\* a.amount > 0 (never true of the NULL row of a voucher without entries)
amount_positive(row) == row.a # <<>> /\ row.a[1].amount > 0

\* WHERE v.party_name IS NOT NULL [AND v.party_name LIKE ..] [AND dates]
\* AND a.amount > 0 GROUP BY v.party_name ORDER BY total_spending DESC
supplier_query(supplier, date_from, date_to) ==
    LET rows == SelectSeq(voucher_left_accounting_inventory,
                    LAMBDA row :
                        /\ (supplier # None => LIKE(row.v.party_name, supplier))
                        /\ date_conditions(row.v.date, date_from, date_to)
                        /\ amount_positive(row))
        groups == by_party(rows)
        grouped == [g \in 1..Len(groups) |->
                      [party_name |-> groups[g][1].v.party_name,
                       transaction_count |-> count_distinct_v(groups[g], "voucher_number"),
                       total_spending |-> revenue(groups[g]),
                       avg_transaction_value |->
                           round_2(revenue(groups[g]), Len(groups[g])),
                       first_transaction |-> min_date(groups[g]),
                       last_transaction |-> max_date(groups[g]),
                       voucher_types_used |-> count_distinct_v(groups[g], "voucher_type"),
                       unique_items_purchased |-> count_distinct_i(groups[g], "item")]]
    IN Orderings(grouped, LAMBDA x, y : x.total_spending >= y.total_spending)

get_supplier_analysis(analysis_type, rows, down) ==
    LET result_ == execute_query(rows, 1 \notin down)
        q1 == <<ran("supplier_query", 1 \notin down)>>
    IN
    IF result_ # <<>>
    THEN [result |->
            [status |-> "success",
             suppliers |->
                 [k \in 1..Len(result_) |->
                     [supplier_name |-> result_[k].party_name,
                      transaction_count |-> result_[k].transaction_count,
                      total_spending |-> result_[k].total_spending,
                      avg_transaction_value |-> result_[k].avg_transaction_value,
                      first_transaction |-> result_[k].first_transaction,
                      last_transaction |-> result_[k].last_transaction,
                      voucher_types_used |-> result_[k].voucher_types_used,
                      unique_items_purchased |-> result_[k].unique_items_purchased]],
             total_suppliers |-> Len(result_),
             analysis_type |-> analysis_type],
          queries |-> q1]
    ELSE [result |-> failure("No supplier data found"), queries |-> q1]

\* WHERE a.amount > 0 [AND dates] [AND i.item LIKE ..]
\* GROUP BY {date_group} ORDER BY period
procurement_query(period, date_from, date_to, category) ==
    LET rows == SelectSeq(voucher_left_accounting_inventory,
                    LAMBDA row :
                        /\ amount_positive(row)
                        /\ date_conditions(row.v.date, date_from, date_to)
                        /\ (category # None =>
                               row.i # <<>> /\ LIKE(row.i[1].item, category)))
        groups == by_period(rows, period)
        grouped == [g \in 1..Len(groups) |->
                      [period |-> date_group(period, groups[g][1].v.date),
                       transaction_count |-> count_distinct_v(groups[g], "voucher_number"),
                       total_spending |-> spending(groups[g]),
                       avg_transaction_value |->
                           round_2(spending(groups[g]), Len(groups[g])),
                       unique_suppliers |-> count_distinct_v(groups[g], "party_name"),
                       unique_items |-> count_distinct_i(groups[g], "item")]]
    IN Orderings(grouped, LAMBDA x, y : text_le(x.period, y.period))

get_procurement_analysis(period, rows, down) ==
    LET result_ == execute_query(rows, 1 \notin down)
        q1 == <<ran("procurement_query", 1 \notin down)>>
    IN
    IF result_ # <<>>
    THEN [result |->
            [status |-> "success",
             procurement_analysis |-> result_,
             period_type |-> period,
             total_periods |-> Len(result_)],
          queries |-> q1]
    ELSE [result |-> failure("No procurement data found"), queries |-> q1]

\* ORDER BY total_spending DESC / transaction_count DESC / unique_items DESC;
\* any other metric orders by total_spending
top_suppliers_order(metric) ==
    IF metric = "spending" THEN "total_spending"
    ELSE IF metric = "transactions" THEN "transaction_count"
    ELSE IF metric = "items" THEN "unique_items"
    ELSE "total_spending"

\* WHERE v.party_name IS NOT NULL AND a.amount > 0 [AND dates]
\* GROUP BY v.party_name ORDER BY {order_by} LIMIT {limit}
top_suppliers_query(metric, limit, date_from, date_to) ==
    LET rows == SelectSeq(voucher_left_accounting_inventory,
                    LAMBDA row :
                        /\ amount_positive(row)
                        /\ date_conditions(row.v.date, date_from, date_to))
        groups == by_party(rows)
        grouped == [g \in 1..Len(groups) |->
                      [party_name |-> groups[g][1].v.party_name,
                       transaction_count |-> count_distinct_v(groups[g], "voucher_number"),
                       total_spending |-> spending(groups[g]),
                       unique_items |-> count_distinct_i(groups[g], "item"),
                       avg_transaction_value |->
                           round_2(spending(groups[g]), Len(groups[g])),
                       warehouses_supplied |-> count_distinct_i(groups[g], "godown")]]
        order_by == top_suppliers_order(metric)
    IN {LIMIT(r, limit) :
          r \in Orderings(grouped, LAMBDA x, y : x[order_by] >= y[order_by])}

get_top_suppliers(metric, limit, rows, down) ==
    LET result_ == execute_query(rows, 1 \notin down)
        q1 == <<ran("top_suppliers_query", 1 \notin down)>>
    IN
    IF result_ # <<>>
    THEN [result |->
            [status |-> "success",
             top_suppliers |->
                 [k \in 1..Len(result_) |->
                     [supplier_name |-> result_[k].party_name,
                      transaction_count |-> result_[k].transaction_count,
                      total_spending |-> result_[k].total_spending,
                      unique_items |-> result_[k].unique_items,
                      avg_transaction_value |-> result_[k].avg_transaction_value,
                      warehouses_supplied |-> result_[k].warehouses_supplied]],
             metric |-> metric,
             limit |-> limit,
             count |-> Len(result_)],
          queries |-> q1]
    ELSE [result |-> failure("No supplier data found"), queries |-> q1]

\* ------------------------------------------------- inventory/tools/tools.py
\* FROM trn_inventory i GROUP BY i.item ORDER BY {sort_field} DESC LIMIT ?
top_items_query(limit, by_value) ==
    LET items == listing({trn_inventory[k].item : k \in 1..Len(trn_inventory)})
        of_item(item) == SelectSeq(trn_inventory, LAMBDA i : i.item = item)
        rows == [g \in 1..Len(items) |->
                    LET group == of_item(items[g])
                    IN [item |-> items[g],
                        total_quantity |->
                            sum([k \in 1..Len(group) |-> abs(group[k].quantity)]),
                        avg_rate |->
                            round_2(sum([k \in 1..Len(group) |-> group[k].rate]),
                                    Len(group)),
                        total_value |->
                            sum([k \in 1..Len(group) |-> abs(group[k].amount)]),
                        transaction_count |-> Len(group),
                        godown_count |->
                            Cardinality({group[k].godown : k \in 1..Len(group)})]]
        sort_field == IF by_value THEN "total_value" ELSE "total_quantity"
    IN {LIMIT(r, limit) :
          r \in Orderings(rows, LAMBDA x, y : x[sort_field] >= y[sort_field])}

get_top_items(limit, by_value, rows, down) ==
    LET results == execute_query(rows, 1 \notin down)
        q1 == <<ran("top_items_query", 1 \notin down)>>
    IN
    IF results = <<>>
    THEN [result |-> [status |-> "no_data",
                      error_message |-> "No item data found"],
          queries |-> q1]
    ELSE
    LET top_items == [k \in 1..Len(results) |->
                        [item_name |-> results[k].item,
                         total_quantity |-> results[k].total_quantity,
                         avg_rate |-> results[k].avg_rate,
                         total_value |-> results[k].total_value,
                         transaction_count |-> results[k].transaction_count,
                         godown_count |-> results[k].godown_count,
                         locations |-> IF results[k].godown_count > 1
                                       THEN "Multiple" ELSE "Single"]]
    IN [result |->
            [status |-> "success",
             top_items |-> top_items,
             criteria |->
                 [limit |-> limit,
                  sorted_by |-> IF by_value THEN "value" ELSE "quantity",
                  total_value |->
                      sum([k \in 1..Len(top_items) |-> top_items[k].total_value])]],
        queries |-> q1]

\* ------------------------------------- inventory/tools/tools.py (lookups)

\* rows of the most recent movements get_item_details lists
RecentLimit == 10

\* FROM mst_stock_item WHERE name LIKE ? (no ORDER BY)
item_query(item_name) ==
    Orderings(SelectSeq(mst_stock_item, LAMBDA m : LIKE(m.name, item_name)),
              LAMBDA x, y : TRUE)

\* FROM trn_inventory i JOIN trn_voucher v ON i.guid = v.guid
\* WHERE i.item LIKE ? ORDER BY v.date DESC LIMIT 10
item_transaction_query(item_name) ==
    LET rows == SelectSeq(inventory_voucher, LAMBDA p : LIKE(p.i.item, item_name))
        flat == [k \in 1..Len(rows) |->
                    [quantity |-> rows[k].i.quantity,
                     rate |-> rows[k].i.rate,
                     amount |-> rows[k].i.amount,
                     godown |-> rows[k].i.godown,
                     date |-> rows[k].v.date,
                     voucher_type |-> rows[k].v.voucher_type,
                     voucher_number |-> rows[k].v.voucher_number,
                     party_name |-> rows[k].v.party_name]]
    IN {LIMIT(r, RecentLimit) :
          r \in Orderings(flat, LAMBDA x, y : x.date >= y.date)}

\* AVG(i.rate): the quotient num / den, kept exact
AVG(xs) == [num |-> sum(xs), den |-> Len(xs)]

\* FROM trn_inventory i WHERE i.item LIKE ? GROUP BY i.godown
item_stock_query(item_name) ==
    LET rows == SelectSeq(trn_inventory, LAMBDA i : LIKE(i.item, item_name))
        godowns == listing({rows[k].godown : k \in 1..Len(rows)})
        groups == [g \in 1..Len(godowns) |->
                     LET group == SelectSeq(rows, LAMBDA i : i.godown = godowns[g])
                     IN [godown |-> godowns[g],
                         current_stock |->
                             sum([k \in 1..Len(group) |-> group[k].quantity]),
                         avg_rate |-> AVG([k \in 1..Len(group) |-> group[k].rate])]]
    IN Orderings(groups, LAMBDA x, y : TRUE)

get_item_details(item_name, item_rows, transaction_rows, stock_rows, down) ==
    LET item_results == execute_query(item_rows, 1 \notin down)
        q1 == <<ran("item_query", 1 \notin down)>>
    IN
    IF item_results = <<>>
    THEN [result |-> error("Item not found"), queries |-> q1]
    ELSE
    LET item_master == item_results[1]
        transactions == execute_query(transaction_rows, 2 \notin down)
        stock_by_godown == execute_query(stock_rows, 3 \notin down)
    IN [result |->
            [status |-> "success",
             item_master |->
                 [name |-> item_master.name,
                  parent_group |-> item_master.parent,
                  alias |-> item_master.alias,
                  opening_balance |-> item_master.opening_balance],
             current_stock |-> stock_by_godown,
             recent_transactions |-> transactions],
        queries |-> q1 \o <<ran("transaction_query", 2 \notin down),
                            ran("stock_query", 3 \notin down)>>]

\* FROM mst_godown [WHERE name LIKE ?]
godown_query(godown_name) ==
    Orderings(SelectSeq(mst_godown,
                  LAMBDA g : godown_name = None \/ LIKE(g.name, godown_name)),
              LAMBDA x, y : TRUE)

\* FROM trn_inventory i WHERE i.godown IS NOT NULL AND i.godown != ''
\* [AND i.godown LIKE ?] GROUP BY i.godown ORDER BY SUM(ABS(i.amount)) DESC
godown_stock_query(godown_name) ==
    LET rows == SelectSeq(trn_inventory,
                    LAMBDA i : /\ i.godown # None
                               /\ (godown_name = None \/ LIKE(i.godown, godown_name)))
        godowns == listing({rows[k].godown : k \in 1..Len(rows)})
        groups == [g \in 1..Len(godowns) |->
                     LET group == SelectSeq(rows, LAMBDA i : i.godown = godowns[g])
                     IN [godown |-> godowns[g],
                         unique_items |->
                             Cardinality({group[k].item : k \in 1..Len(group)}),
                         total_quantity |->
                             sum([k \in 1..Len(group) |-> abs(group[k].quantity)]),
                         total_value |->
                             sum([k \in 1..Len(group) |-> abs(group[k].amount)]),
                         avg_rate |-> AVG([k \in 1..Len(group) |-> group[k].rate])]]
    IN Orderings(groups, LAMBDA x, y : x.total_value >= y.total_value)

get_godown_summary(godown_name, master_rows, stock_rows, down) ==
    LET godown_master == execute_query(master_rows, 1 \notin down)
        stock_summary == execute_query(stock_rows, 2 \notin down)
        q == <<ran("godown_query", 1 \notin down), ran("stock_query", 2 \notin down)>>
    IN
    IF stock_summary = <<>>
    THEN [result |-> [status |-> "no_data",
                      error_message |-> "No godown data found"],
          queries |-> q]
    ELSE
    LET master_info(name) ==
            SelectSeq(godown_master, LAMBDA g : g.name = name)
        godown_details ==
            [k \in 1..Len(stock_summary) |->
                LET stock == stock_summary[k]
                    info == master_info(stock.godown)
                IN [godown_name |-> stock.godown,
                    parent |-> IF info = <<>> THEN None ELSE info[1].parent,
                    address |-> IF info = <<>> THEN None ELSE info[1].address,
                    unique_items |-> stock.unique_items,
                    total_quantity |-> stock.total_quantity,
                    total_value |-> stock.total_value,
                    avg_rate |-> IF stock.avg_rate.num = 0 THEN 0
                                 ELSE stock.avg_rate]]
    IN [result |->
            [status |-> "success",
             godowns |-> godown_details,
             summary |->
                 [total_godowns |-> Len(godown_details),
                  total_value |->
                      sum([k \in 1..Len(godown_details) |->
                              godown_details[k].total_value]),
                  total_quantity |->
                      sum([k \in 1..Len(godown_details) |->
                              godown_details[k].total_quantity]),
                  currency |-> "INR"]],
        queries |-> q]

\* ------------------------------- communication/tools/send_email_enhanced.py

\* how the Gmail API answers: the message is sent, the service cannot be
\* built (credentials), or the send request is rejected
GmailOutcomes == {"sent", "no_service", "rejected"}

\* smtp_config: None or {} (falsy), a dict without email or password, a
\* dict with both
SmtpConfigs == {"none", "incomplete", "complete"}

\* one delivery attempt of a call and whether it succeeded
attempt(strategy, to, ok) == [strategy |-> strategy, to |-> to, ok |-> ok]

send_via_gmail_api(email, gmail) ==
    IF gmail = "sent"
    THEN [status |-> "success", method |-> "Gmail API",
          to |-> email.to, subject |-> email.subject]
    ELSE [status |-> "error", method |-> "Gmail API"]

send_via_smtp(email, smtp_config, smtp_ok) ==
    IF smtp_config = "incomplete"
    THEN [status |-> "error", method |-> "SMTP"]
    ELSE IF smtp_ok
    THEN [status |-> "success", method |-> "SMTP",
          to |-> email.to, subject |-> email.subject]
    ELSE [status |-> "error", method |-> "SMTP"]

\* ticks of the clock in one second
TicksPerSecond == 2

\* datetime.now().strftime("%Y%m%d_%H%M%S"): the time cut to the second
email_filename(now) ==
    [prefix |-> "email_output_", second |-> now \div TicksPerSecond]

\* open(filename, 'w') and write: the file is created, or truncated and
\* rewritten when it exists
written(directory, filename, content) ==
    {f \in directory : f.filename # filename}
        \cup {[filename |-> filename, content |-> content]}

\* the payload and the directory after saving; a failing open leaves the
\* directory as it was
save_email_to_file(email, now, directory, file_ok) ==
    IF file_ok
    THEN [result |-> [status |-> "saved", method |-> "File Output",
                      filename |-> email_filename(now),
                      to |-> email.to, subject |-> email.subject],
          files |-> written(directory, email_filename(now), email)]
    ELSE [result |-> [status |-> "error", method |-> "File Output"],
          files |-> directory]

send_email_always_smtp(email, smtp_config, gmail, smtp_ok, file_ok, now, directory) ==
    LET by_api == send_via_gmail_api(email, gmail)
        by_smtp == send_via_smtp(email, smtp_config, smtp_ok)
        a1 == <<attempt("Gmail API", email.to, by_api.status = "success")>>
        a2 == a1 \o <<attempt("SMTP", email.to, by_smtp.status = "success")>>
        saved == save_email_to_file(email, now, directory, file_ok)
    IN IF by_smtp.status = "success"
       THEN [result |-> by_smtp, attempts |-> a2, files |-> directory]
       ELSE [result |-> saved.result,
             attempts |-> a2 \o <<attempt("File Output", email.to,
                                          saved.result.status = "saved")>>,
             files |-> saved.files]

\* Gmail API, then SMTP if configured, then the file
send_email(email, smtp_config, gmail, smtp_ok, file_ok, now, directory) ==
    LET by_api == send_via_gmail_api(email, gmail)
        a1 == <<attempt("Gmail API", email.to, by_api.status = "success")>>
    IN
    IF by_api.status = "success"
    THEN [result |-> by_api, attempts |-> a1, files |-> directory]
    ELSE
    LET by_smtp == send_via_smtp(email, smtp_config, smtp_ok)
        a2 == IF smtp_config # "none"
              THEN a1 \o <<attempt("SMTP", email.to, by_smtp.status = "success")>>
              ELSE a1
    IN
    IF smtp_config # "none" /\ by_smtp.status = "success"
    THEN [result |-> by_smtp, attempts |-> a2, files |-> directory]
    ELSE
    LET saved == save_email_to_file(email, now, directory, file_ok)
    IN [result |-> saved.result,
        attempts |-> a2 \o <<attempt("File Output", email.to,
                                     saved.result.status = "saved")>>,
        files |-> saved.files]

\* ------------------- communication/tools/send_email.py and tools/tools.py

\* send_email of send_email.py, imported by tools.py as _send_email: the
\* Gmail API only; with a from_name the profile is read first, inside the
\* same try block
send_email_plain(email, from_name, gmail) ==
    IF gmail = "sent" \/ (gmail = "no_profile" /\ ~from_name)
    THEN [status |-> "success", message_id |-> <<1>>,
          to |-> email.to, subject |-> email.subject]
    ELSE [status |-> "error"]

\* the tool the agent is given for sending: _send_email and nothing else
send_gmail_message(email, from_name, gmail) ==
    LET result_ == send_email_plain(email, from_name, gmail)
    IN [result |-> result_,
        attempts |-> <<attempt("Gmail API", email.to, result_.status = "success")>>]

\* how the Calendar API answers: the event is created, the service cannot
\* be built, or the insert request is rejected
CalendarOutcomes == {"created", "no_service", "rejected"}

\* start_time: an ISO 8601 text, or one datetime.fromisoformat rejects
StartTimes == {"2025-08-05T15:00:00", "tomorrow"}

fromisoformat_ok(start_time) == start_time = "2025-08-05T15:00:00"

\* schedule_event: build the service, parse start_time, insert the event;
\* any exception gives status error
schedule_event(summary, start_time, calendar) ==
    IF calendar = "created" /\ fromisoformat_ok(start_time)
    THEN [status |-> "success", event_id |-> <<1>>, summary |-> summary,
          start_time |-> start_time]
    ELSE [status |-> "error"]

schedule_calendar_event(summary, start_time, calendar) ==
    schedule_event(summary, start_time, calendar)

\* one entry of email_notifications
notification(attendee, email_result) ==
    [attendee |-> attendee,
     status |-> email_result.status,
     message_id |-> IF email_result.status = "success"
                    THEN email_result.message_id ELSE <<>>]

\* the invitation loop, given up at the first attendee who cannot be reached
create_meeting_invitation_until_failure(title, start_time, attendees, send_invitation, calendar, mail) ==
    LET calendar_result == schedule_calendar_event(title, start_time, calendar)
        scheduled == <<attempt("Calendar", <<>>, calendar_result.status = "success")>>
        sent(k) == send_gmail_message([to |-> attendees[k], subject |-> title],
                                      TRUE, mail[k])
        reached == {n \in 0..Len(attendees) :
                       \A k \in 1..n : sent(k).result.status = "success"}
        last == CHOOSE n \in reached : \A m \in reached : m <= n
    IN [result |-> IF calendar_result.status # "success" THEN calendar_result
                   ELSE [status |-> "success", calendar_event |-> calendar_result,
                         email_notifications |->
                             [k \in 1..last |-> notification(attendees[k], sent(k).result)]],
        attempts |-> IF calendar_result.status # "success" THEN scheduled
                     ELSE scheduled \o [k \in 1..last |-> sent(k).attempts[1]]]

\* the calendar event first; then, if asked, one email per attendee
create_meeting_invitation(title, start_time, attendees, send_invitation, calendar, mail) ==
    LET calendar_result == schedule_calendar_event(title, start_time, calendar)
        scheduled == <<attempt("Calendar", <<>>, calendar_result.status = "success")>>
    IN
    IF calendar_result.status # "success"
    THEN [result |-> calendar_result, attempts |-> scheduled]
    ELSE IF ~(send_invitation /\ attendees # <<>>)
    THEN [result |-> [status |-> "success", calendar_event |-> calendar_result,
                      email_notifications |-> <<>>],
          attempts |-> scheduled]
    ELSE IF ~fromisoformat_ok(start_time)
    THEN [result |-> [status |-> "error"], attempts |-> scheduled]
    ELSE
    LET sent(k) == send_gmail_message([to |-> attendees[k], subject |-> title],
                                      TRUE, mail[k])
    IN [result |-> [status |-> "success", calendar_event |-> calendar_result,
                    email_notifications |->
                        [k \in 1..Len(attendees) |->
                            notification(attendees[k], sent(k).result)]],
        attempts |-> scheduled \o [k \in 1..Len(attendees) |-> sent(k).attempts[1]]]

\* ----------------------------------------------------- manager/tools/tools.py
\* CASE WHEN a.amount < 0 THEN ABS(a.amount) ELSE 0 END
negative_amount(row) ==
    IF row.a # <<>> /\ row.a[1].amount < 0 THEN abs(row.a[1].amount) ELSE 0

\* CASE WHEN i.quantity < 0 THEN ABS(i.quantity) ELSE 0 END
negative_quantity(row) ==
    IF row.i # <<>> /\ row.i[1].quantity < 0 THEN abs(row.i[1].quantity) ELSE 0

\* a.amount, nothing for the NULL row of a voucher without entries
signed_amount(row) == IF row.a # <<>> THEN row.a[1].amount ELSE 0

\* FROM trn_voucher v LEFT JOIN trn_accounting a LEFT JOIN trn_inventory i
\* WHERE {where_clause}: one aggregate row
business_overview_query(date_from, date_to) ==
    LET rows == SelectSeq(voucher_left_accounting_inventory,
                    LAMBDA row : date_conditions(row.v.date, date_from, date_to))
    IN << [total_transactions |-> count_distinct_v(rows, "voucher_number"),
           unique_parties |-> count_distinct_v(rows, "party_name"),
           voucher_types |-> count_distinct_v(rows, "voucher_type"),
           total_inflows |-> revenue(rows),
           total_outflows |-> sum([k \in 1..Len(rows) |-> negative_amount(rows[k])]),
           net_position |-> sum([k \in 1..Len(rows) |-> signed_amount(rows[k])]),
           unique_items |-> count_distinct_i(rows, "item"),
           active_warehouses |-> count_distinct_i(rows, "godown"),
           total_inward_qty |-> quantity(rows),
           total_outward_qty |-> sum([k \in 1..Len(rows) |-> negative_quantity(rows[k])]),
           period_start |-> min_date(rows),
           period_end |-> max_date(rows),
           active_days |-> count_distinct_v(rows, "date")] >>

get_business_overview(date_from, date_to, down) ==
    LET result_ == execute_query(business_overview_query(date_from, date_to),
                                 1 \notin down)
        q1 == <<ran("business_overview_query", 1 \notin down)>>
    IN
    IF result_ # <<>>
    THEN LET data == result_[1]
             active_days == IF data.active_days > 1 THEN data.active_days ELSE 1
         IN [result |->
               [status |-> "success",
                business_overview |->
                    [transaction_metrics |->
                         [total_transactions |-> data.total_transactions,
                          unique_parties |-> data.unique_parties,
                          voucher_types |-> data.voucher_types,
                          active_days |-> data.active_days],
                     financial_metrics |->
                         [total_inflows |-> data.total_inflows,
                          total_outflows |-> data.total_outflows,
                          net_position |-> data.net_position,
                          daily_avg_inflows |-> round_2(data.total_inflows, active_days),
                          daily_avg_outflows |-> round_2(data.total_outflows, active_days)],
                     operational_metrics |->
                         [unique_items |-> data.unique_items,
                          active_warehouses |-> data.active_warehouses,
                          total_inward_qty |-> data.total_inward_qty,
                          total_outward_qty |-> data.total_outward_qty,
                          inventory_turnover |->
                              IF data.total_outward_qty # 0 /\ data.total_inward_qty # 0
                              THEN "High" ELSE "Low"],
                     period_info |->
                         [start_date |-> data.period_start,
                          end_date |-> data.period_end,
                          duration_days |-> active_days]]],
             queries |-> q1]
    ELSE [result |-> failure("No business data found"), queries |-> q1]

\* ------------------------------------ financial/tools/tools.py (analytics)
valid_analytics_types == {"descriptive", "diagnostic", "predictive", "prescriptive", "all"}

valid_focus_areas ==
    {"cash_flow", "profitability", "liquidity", "performance", "risk", "optimization"}

\* forecast_periods: int = 12
forecast_periods == 12

\* days between the same date of consecutive years (datetime.replace(year - 1))
YearDays == 365

\* one aggregate row over the entries of the window: COUNT(*) and two sums
\* (NULL, written <<>>, over no rows) by query_focus
financial_analytics_query(query_focus, start_date, end_date) ==
    LET in_window == SelectSeq(accounting_voucher,
                        LAMBDA p : BETWEEN(p.v.date, start_date, end_date))
        cash == SelectSeq(in_window,
                    LAMBDA p : LIKE(p.a.ledger, Cash) \/ LIKE(p.a.ledger, Bank))
        ledger_of(p) == SelectSeq(mst_ledger, LAMBDA l : l.name = p.a.ledger)
        pl == SelectSeq(in_window,
                  LAMBDA p : ledger_of(p) # <<>> /\ ledger_of(p)[1].is_revenue # -1)
        entries(ps) == [k \in 1..Len(ps) |-> ps[k].a.amount]
        of_revenue(ps, flag) ==
            sum([k \in 1..Len(ps) |->
                    IF ledger_of(ps[k])[1].is_revenue = flag
                    THEN abs(ps[k].a.amount) ELSE 0])
    IN IF query_focus = "cash_flow"
       THEN << [transaction_count |-> Len(cash),
                total_inflow |->
                    IF cash = <<>> THEN <<>> ELSE <<total_credits(entries(cash))>>,
                total_outflow |->
                    IF cash = <<>> THEN <<>> ELSE <<total_debits(entries(cash))>>] >>
       ELSE IF query_focus = "profitability"
       THEN << [transaction_count |-> Len(pl),
                total_income |-> IF pl = <<>> THEN <<>> ELSE <<of_revenue(pl, 1)>>,
                total_expenses |-> IF pl = <<>> THEN <<>> ELSE <<of_revenue(pl, 0)>>] >>
       ELSE << [transaction_count |-> Len(in_window),
                unique_parties |->
                    Cardinality({in_window[k].v.party_name : k \in 1..Len(in_window)}),
                total_amount |->
                    IF in_window = <<>> THEN <<>>
                    ELSE <<sum([k \in 1..Len(in_window) |->
                                   abs(in_window[k].a.amount)])>>] >>

\* the tier lines appended after the descriptive block
tier_insights(analytics_type, query_focus) ==
    (IF analytics_type \in {"diagnostic", "all"}
     THEN <<[tier |-> "Diagnostic", focus |-> query_focus]>> ELSE <<>>)
    \o (IF analytics_type \in {"predictive", "all"}
        THEN <<[tier |-> "Predictive", focus |-> query_focus,
                periods |-> forecast_periods]>> ELSE <<>>)
    \o (IF analytics_type \in {"prescriptive", "all"}
        THEN <<[tier |-> "Prescriptive", focus |-> query_focus]>> ELSE <<>>)

get_financial_analytics(analytics_type, query_focus, start_date, end_date, now, down) ==
    IF analytics_type \notin valid_analytics_types
    THEN [result |-> error("Analytics type must be one of"), queries |-> <<>>]
    ELSE IF query_focus \notin valid_focus_areas
    THEN [result |-> error("Query focus must be one of"), queries |-> <<>>]
    ELSE IF truthy(start_date) /\ truthy(end_date)
            /\ (~strptime_ok(start_date) \/ ~strptime_ok(end_date))
    THEN [result |-> error("Invalid date format"), queries |-> <<>>]
    ELSE IF truthy(start_date) /\ truthy(end_date)
            /\ strptime(start_date) > strptime(end_date)
    THEN [result |-> error("Start date cannot be after end date"), queries |-> <<>>]
    ELSE
    LET start == IF ~truthy(start_date) THEN Iso(now - YearDays) ELSE start_date
        end == IF ~truthy(end_date) THEN Iso(now) ELSE end_date
        results == execute_query(financial_analytics_query(query_focus, start, end),
                                 1 \notin down)
        q1 == <<ran("financial_analytics_query", 1 \notin down)>>
        described == analytics_type \in {"descriptive", "all"} /\ results # <<>>
        \* the two amounts the descriptive block formats with :,.2f
        amounts_ == IF query_focus = "cash_flow"
                    THEN <<results[1].total_inflow, results[1].total_outflow>>
                    ELSE IF query_focus = "profitability"
                    THEN <<results[1].total_income, results[1].total_expenses>>
                    ELSE <<>>
    IN
    IF described /\ amounts_ # <<>> /\ (amounts_[1] = <<>> \/ amounts_[2] = <<>>)
    THEN \* formatting None raises TypeError, caught by the outer handler
         [result |-> error("Error performing financial analytics"), queries |-> q1]
    ELSE
    [result |->
        [status |-> "success",
         start_date |-> start,
         end_date |-> end,
         analytics_results |->
             [analytics_type |-> analytics_type,
              query_focus |-> query_focus,
              key_insights |->
                  (IF analytics_type \in {"descriptive", "all"}
                   THEN <<[tier |-> "Descriptive", start_date |-> start,
                           end_date |-> end]>>
                        \o (IF results # <<>> /\ amounts_ # <<>>
                            THEN <<[amount |-> amounts_[1][1]],
                                   [amount |-> amounts_[2][1]]>>
                            ELSE <<>>)
                   ELSE <<>>)
                  \o tier_insights(analytics_type, query_focus),
              recommendations |->
                  [k \in 1..Len(tier_insights(analytics_type, query_focus)) |->
                      tier_insights(analytics_type, query_focus)[k].tier],
              data_points |-> IF results # <<>> THEN results[1].transaction_count ELSE 0,
              data_summary |-> results,
              forecast_periods |->
                  IF analytics_type \in {"predictive", "all"}
                  THEN <<forecast_periods>> ELSE <<>>],
         timestamp |-> now],
     queries |-> q1]

\* ------------------------------------ inventory/tools/tools.py (analytics)
valid_inventory_focus_areas ==
    {"stock_levels", "movement_patterns", "turnover", "valuation", "optimization", "trends"}

\* start_date = "2023-04-01" and end_date = "2024-03-31" on the day scale
\* where day d is 2024-01-0d
DefaultStart == Iso(1 - 275)
DefaultEnd == Iso(31 + 29 + 31)

\* the rows of the query a query_focus selects, over the movements of the
\* window; grouped rows carry total_value, plain rows carry quantity (the
\* handler reads the rows as a bag: their order reaches no payload field)
inventory_analytics_query(query_focus, start_date, end_date) ==
    LET rows == SelectSeq(inventory_voucher,
                    LAMBDA p : BETWEEN(p.v.date, start_date, end_date))
        keys(columns) ==
            listing({[c \in columns |-> rows[k].i[c]] : k \in 1..Len(rows)})
        group(columns, key) ==
            SelectSeq(rows, LAMBDA p : [c \in columns |-> p.i[c]] = key)
        quantities(ps) == [k \in 1..Len(ps) |-> ps[k].i.quantity]
        values(ps) == [k \in 1..Len(ps) |-> ps[k].i.amount]
        rates(ps) == [k \in 1..Len(ps) |-> ps[k].i.rate]
    IN IF query_focus = "stock_levels"
       THEN [g \in 1..Len(keys({"item", "godown"})) |->
               LET ps == group({"item", "godown"}, keys({"item", "godown"})[g])
               IN [item |-> ps[1].i.item,
                   godown |-> ps[1].i.godown,
                   current_stock |-> sum(quantities(ps)),
                   avg_rate |-> round_2(sum(rates(ps)), Len(ps)),
                   total_value |-> sum(values(ps))]]
       ELSE IF query_focus = "turnover"
       THEN [g \in 1..Len(keys({"item"})) |->
               LET ps == group({"item"}, keys({"item"})[g])
               IN [item |-> ps[1].i.item,
                   transaction_frequency |-> Len(ps),
                   total_movement |-> sum([k \in 1..Len(ps) |-> abs(ps[k].i.quantity)]),
                   total_value |-> sum([k \in 1..Len(ps) |-> abs(ps[k].i.amount)]),
                   avg_rate |-> round_2(sum(rates(ps)), Len(ps))]]
       ELSE IF query_focus = "movement_patterns"
       THEN [k \in 1..Len(rows) |->
               [item |-> rows[k].i.item,
                date |-> rows[k].v.date,
                quantity |-> rows[k].i.quantity,
                amount |-> rows[k].i.amount,
                voucher_type |-> rows[k].v.voucher_type]]
       ELSE [k \in 1..Len(rows) |->
               [item |-> rows[k].i.item,
                godown |-> rows[k].i.godown,
                quantity |-> rows[k].i.quantity,
                rate |-> rows[k].i.rate,
                amount |-> rows[k].i.amount,
                date |-> rows[k].v.date,
                voucher_type |-> rows[k].v.voucher_type]]

\* the recommendations of the tiers asked for, with the extra lines some
\* focus areas add
inventory_recommendations(analytics_type, query_focus) ==
    (IF analytics_type \in {"diagnostic", "all"}
     THEN <<"Investigate patterns">>
          \o (IF query_focus = "stock_levels" THEN <<"Check negative stock levels">>
              ELSE IF query_focus = "movement_patterns"
              THEN <<"Analyze seasonal movement trends">> ELSE <<>>)
     ELSE <<>>)
    \o (IF analytics_type \in {"predictive", "all"}
        THEN <<"Prepare inventory planning">> ELSE <<>>)
    \o (IF analytics_type \in {"prescriptive", "all"}
        THEN <<"Implement best practices">>
             \o (IF query_focus = "stock_levels" THEN <<"Set optimal reorder points">>
                 ELSE IF query_focus = "turnover"
                 THEN <<"Focus on fast-moving items">> ELSE <<>>)
        ELSE <<>>)

\* sum(abs(float(row.get(column, 0))) for row in results if row.get(column))
column_total(results, column) ==
    sum([k \in 1..Len(results) |->
            IF column \in DOMAIN results[k] THEN abs(results[k][column]) ELSE 0])

get_inventory_analytics(analytics_type, query_focus, start_date, end_date, now, down) ==
    IF analytics_type \notin valid_analytics_types
    THEN [result |-> error("Analytics type must be one of"), queries |-> <<>>]
    ELSE IF query_focus \notin valid_inventory_focus_areas
    THEN [result |-> error("Query focus must be one of"), queries |-> <<>>]
    ELSE
    LET start == IF ~truthy(start_date) THEN DefaultStart ELSE start_date
        end == IF ~truthy(end_date) THEN DefaultEnd ELSE end_date
        results == execute_query(inventory_analytics_query(query_focus, start, end),
                                 1 \notin down)
        q1 == <<ran("inventory_analytics_query", 1 \notin down)>>
    IN
    IF results = <<>>
    THEN [result |-> [status |-> "no_data",
                      error_message |-> "No inventory data found for analysis",
                      timestamp |-> now],
          queries |-> q1]
    ELSE
    [result |->
        [status |-> "success",
         start_date |-> start,
         end_date |-> end,
         analytics_results |->
             [analytics_type |-> analytics_type,
              query_focus |-> query_focus,
              key_insights |->
                  (IF analytics_type \in {"descriptive", "all"}
                   THEN <<[tier |-> "Descriptive", records |-> Len(results),
                           start_date |-> start, end_date |-> end]>>
                        \o (IF query_focus = "stock_levels"
                            THEN <<[unique_items |->
                                      Cardinality({results[k].item :
                                                     k \in 1..Len(results)})]>>
                            ELSE IF query_focus = "turnover"
                            THEN <<[avg_frequency |->
                                      round_2(sum([k \in 1..Len(results) |->
                                                     results[k].transaction_frequency]),
                                              Len(results))]>>
                            ELSE <<>>)
                   ELSE <<>>)
                  \o tier_insights(analytics_type, query_focus),
              recommendations |-> inventory_recommendations(analytics_type, query_focus),
              data_points |-> Len(results),
              summary_stats |->
                  [total_value |-> column_total(results, "total_value"),
                   total_quantity |-> column_total(results, "quantity"),
                   analysis_period |-> <<start, end>>],
              forecast_periods |->
                  IF analytics_type \in {"predictive", "all"}
                  THEN <<forecast_periods>> ELSE <<>>],
         timestamp |-> now],
     queries |-> q1]

\* ---------------------------------------- sales/tools/tools.py (analytics)
\* analytics_type.lower()
str_lower(s) == IF s = "DESCRIPTIVE" THEN "descriptive" ELSE s

\* the joined rows of the vouchers of the period
sales_data_query(date_from, date_to) ==
    SelectSeq(voucher_left_accounting_inventory,
              LAMBDA row : date_conditions(row.v.date, date_from, date_to))

\* the totals a dict keyed by party accumulates over the rows that count
party_totals(rows) ==
    LET groups == by_party(rows)
    IN [g \in 1..Len(groups) |->
          [name |-> groups[g][1].v.party_name, total |-> revenue(groups[g])]]

\* max(items, key=total): the first of the largest totals in the order the
\* rows arrived, so any party holding the largest total
top_parties(totals) ==
    IF totals = <<>> THEN {[name |-> <<"N", "o", "n", "e">>, total |-> 0]}
    ELSE {totals[k] : k \in {j \in 1..Len(totals) :
                               \A m \in 1..Len(totals) : totals[j].total >= totals[m].total}}

get_sales_analytics(analytics_type, query, raw_data, top_customer, down) ==
    LET rows == execute_query(raw_data, 1 \notin down)
        q1 == <<ran("sales_data_query", 1 \notin down)>>
        total_transactions == count_distinct_v(rows, "voucher_number")
    IN
    IF rows = <<>>
    THEN [result |-> failure("No data available for analytics"), queries |-> q1]
    ELSE IF str_lower(analytics_type) = "descriptive"
    THEN [result |->
            [status |-> "success", analytics_type |-> "descriptive", query |-> query,
             insights |->
                 [total_transactions |-> total_transactions,
                  total_customers |-> count_distinct_v(rows, "party_name"),
                  total_revenue |-> revenue(rows),
                  avg_transaction_value |-> round_2(revenue(rows), total_transactions),
                  data_points |-> Len(rows)]],
          queries |-> q1]
    ELSE IF str_lower(analytics_type) = "diagnostic"
    THEN [result |->
            [status |-> "success", analytics_type |-> "diagnostic", query |-> query,
             insights |->
                 [top_customer |-> top_customer,
                  customer_concentration |->
                      Len(party_totals(SelectSeq(rows,
                              LAMBDA row : positive_amount(row) > 0)))]],
          queries |-> q1]
    ELSE IF str_lower(analytics_type) = "predictive"
    THEN [result |->
            [status |-> "success", analytics_type |-> "predictive", query |-> query,
             insights |->
                 [periods_analyzed |->
                      Len(by_period(SelectSeq(rows,
                              LAMBDA row : positive_amount(row) > 0), "monthly"))]],
          queries |-> q1]
    ELSE IF str_lower(analytics_type) = "prescriptive"
    THEN [result |->
            [status |-> "success", analytics_type |-> "prescriptive", query |-> query,
             insights |-> [action_items |-> "Strategic sales improvements suggested"]],
          queries |-> q1]
    ELSE [result |-> failure("Unknown analytics type"), queries |-> q1]

\* ------------------------------------- purchase/tools/tools.py (analytics)
\* ... WHERE {where_clause} AND a.amount > 0
purchase_data_query(date_from, date_to) ==
    SelectSeq(voucher_left_accounting_inventory,
              LAMBDA row : /\ date_conditions(row.v.date, date_from, date_to)
                           /\ amount_positive(row))

get_purchase_analytics(analytics_type, query, raw_data, top_supplier, down) ==
    LET rows == execute_query(raw_data, 1 \notin down)
        q1 == <<ran("purchase_data_query", 1 \notin down)>>
        total_transactions == count_distinct_v(rows, "voucher_number")
    IN
    IF rows = <<>>
    THEN [result |-> failure("No data available for analytics"), queries |-> q1]
    ELSE IF str_lower(analytics_type) = "descriptive"
    THEN [result |->
            [status |-> "success", analytics_type |-> "descriptive", query |-> query,
             insights |->
                 [total_transactions |-> total_transactions,
                  total_suppliers |-> count_distinct_v(rows, "party_name"),
                  total_spending |-> spending(rows),
                  avg_transaction_value |-> round_2(spending(rows), total_transactions),
                  data_points |-> Len(rows)]],
          queries |-> q1]
    ELSE IF str_lower(analytics_type) = "diagnostic"
    THEN [result |->
            [status |-> "success", analytics_type |-> "diagnostic", query |-> query,
             insights |->
                 [top_supplier |-> top_supplier,
                  supplier_concentration |-> Len(party_totals(rows))]],
          queries |-> q1]
    ELSE IF str_lower(analytics_type) = "predictive"
    THEN [result |->
            [status |-> "success", analytics_type |-> "predictive", query |-> query,
             insights |-> [periods_analyzed |-> Len(by_period(rows, "monthly"))]],
          queries |-> q1]
    ELSE IF str_lower(analytics_type) = "prescriptive"
    THEN [result |->
            [status |-> "success", analytics_type |-> "prescriptive", query |-> query,
             insights |-> [action_items |-> "Strategic procurement improvements suggested"]],
          queries |-> q1]
    ELSE [result |-> failure("Unknown analytics type"), queries |-> q1]

\* a tool returns: its payload and the queries it issued become visible
Return(op, args, out) ==
    /\ pc = "idle"
    /\ pc' = "returned"
    /\ call' = [op |-> op, args |-> args]
    /\ result' = out.result
    /\ queries' = out.queries
    /\ UNCHANGED <<store, world>>

\* the agent takes the payload and is ready for the next request
NextRequest ==
    /\ pc = "returned"
    /\ pc' = "idle"
    /\ call' = NoCall
    /\ result' = NoResult
    /\ queries' = <<>>
    /\ attempts' = <<>>
    /\ UNCHANGED <<store, connection, files, clock, savers>>

\* ----------------------------------------------------------- tool calls
AccountNames == {<<"c", "a", "s", "h">>, <<"a">>, <<"P", "e", "t">>, <<"x">>}

Call_get_account_balance ==
    /\ pc = "idle"
    /\ \E account_name \in AccountNames, as_of_date \in DateArgs,
       down \in SUBSET (1..2) :
      \E rows \in ledger_query(account_name) :
        Return("get_account_balance",
               [account_name |-> account_name, as_of_date |-> as_of_date],
               get_account_balance(account_name, as_of_date, rows, down))

Call_get_ledger_summary ==
    /\ pc = "idle"
    /\ \E account_type \in {None, Bank}, include_zero_balance \in BOOLEAN,
       down \in SUBSET (1..1) :
        Return("get_ledger_summary",
               [account_type |-> account_type,
                include_zero_balance |-> include_zero_balance],
               get_ledger_summary(account_type, include_zero_balance, down))

WindowArgs == {NoDate, Malformed} \cup {Iso(d) : d \in 1..MaxDay}

Call_get_cash_flow ==
    /\ pc = "idle"
    /\ \E start_date \in WindowArgs, end_date \in WindowArgs, down \in SUBSET (1..1) :
      \E rows \in cash_flow_query(start_date, end_date) :
        Return("get_cash_flow",
               [start_date |-> start_date, end_date |-> end_date],
               get_cash_flow(start_date, end_date, rows, down))

Call_get_profit_loss ==
    /\ pc = "idle"
    /\ \E start_date \in WindowArgs, end_date \in WindowArgs, down \in SUBSET (1..1) :
      \E rows \in pl_query(start_date, end_date) :
        Return("get_profit_loss",
               [start_date |-> start_date, end_date |-> end_date],
               get_profit_loss(start_date, end_date, rows, down))

\* datetime.now(): a day on which the vouchers are recent, or one on which
\* they are older than the lookback
NowValues == {MaxDay, MaxDay + LookbackDays + 1}

Call_get_payment_receipts ==
    /\ pc = "idle"
    /\ \E transaction_type \in {"payment", "receipt", "both", "refund"},
       start_date \in WindowArgs, end_date \in WindowArgs,
       party_name \in {None, Acme}, limit \in {0, 1},
       now \in NowValues, down \in SUBSET (1..1) :
      LET window == payment_receipts_window(start_date, end_date, now)
      IN \E rows \in payment_receipts_query(transaction_type, window.start_date,
                                            window.end_date, party_name, limit) :
        Return("get_payment_receipts",
               [transaction_type |-> transaction_type, start_date |-> start_date,
                end_date |-> end_date, party_name |-> party_name, limit |-> limit],
               get_payment_receipts(transaction_type, window.start_date,
                                    window.end_date, rows, down))

Call_get_stock_movements ==
    /\ pc = "idle"
    /\ \E start_date \in WindowArgs, end_date \in WindowArgs,
       item_name \in {None, Widget}, down \in SUBSET (1..1) :
      \E rows \in stock_movements_query(start_date, end_date, item_name) :
        Return("get_stock_movements",
               [start_date |-> start_date, end_date |-> end_date,
                item_name |-> item_name],
               get_stock_movements(start_date, end_date, rows, down))

\* the tools that report on a date window
NextWindow ==
    \/ Call_get_cash_flow
    \/ Call_get_profit_loss
    \/ Call_get_payment_receipts
    \/ Call_get_stock_movements
    \/ NextRequest

SpecWindow == Init /\ [][NextWindow]_vars

\* account balance and ledger summary
NextBalance ==
    \/ Call_get_account_balance
    \/ Call_get_ledger_summary
    \/ NextRequest

SpecBalance == InitBalance /\ [][NextBalance]_vars

\* ------------------------------------------- sales and purchase tool calls
PartyArgs == {None, Acme, <<"z">>}
PeriodArgs == {"daily", "weekly", "monthly", "yearly"}
LimitArgs == {1, 2}

Call_get_sales_summary ==
    /\ pc = "idle"
    /\ \E date_from \in WindowArgs, date_to \in WindowArgs,
          customer \in PartyArgs, voucher_type \in {None, Payment},
          down \in SUBSET (1..1) :
         Return("get_sales_summary",
                [date_from |-> date_from, date_to |-> date_to,
                 customer |-> customer, voucher_type |-> voucher_type],
                get_sales_summary(date_from, date_to, customer, voucher_type, down))

Call_get_customer_analysis ==
    /\ pc = "idle"
    /\ \E customer \in PartyArgs, date_from \in WindowArgs, date_to \in WindowArgs,
          analysis_type \in {"summary", "cohort"}, down \in SUBSET (1..1) :
         \E rows \in customer_query(customer, date_from, date_to) :
           Return("get_customer_analysis",
                  [customer |-> customer, date_from |-> date_from,
                   date_to |-> date_to, analysis_type |-> analysis_type],
                  get_customer_analysis(analysis_type, rows, down))

Call_get_revenue_analysis ==
    /\ pc = "idle"
    /\ \E period \in PeriodArgs, date_from \in WindowArgs, date_to \in WindowArgs,
          down \in SUBSET (1..1) :
         \E rows \in revenue_query(period, date_from, date_to) :
           Return("get_revenue_analysis",
                  [period |-> period, date_from |-> date_from, date_to |-> date_to],
                  get_revenue_analysis(period, rows, down))

Call_get_top_customers ==
    /\ pc = "idle"
    /\ \E metric \in {"revenue", "transactions", "quantity", "margin"},
          limit \in LimitArgs, date_from \in WindowArgs, date_to \in WindowArgs,
          down \in SUBSET (1..1) :
         \E rows \in top_customers_query(metric, limit, date_from, date_to) :
           Return("get_top_customers",
                  [metric |-> metric, limit |-> limit,
                   date_from |-> date_from, date_to |-> date_to],
                  get_top_customers(metric, limit, rows, down))

Call_get_supplier_analysis ==
    /\ pc = "idle"
    /\ \E supplier \in PartyArgs, date_from \in WindowArgs, date_to \in WindowArgs,
          analysis_type \in {"summary", "cohort"}, down \in SUBSET (1..1) :
         \E rows \in supplier_query(supplier, date_from, date_to) :
           Return("get_supplier_analysis",
                  [supplier |-> supplier, date_from |-> date_from,
                   date_to |-> date_to, analysis_type |-> analysis_type],
                  get_supplier_analysis(analysis_type, rows, down))

Call_get_procurement_analysis ==
    /\ pc = "idle"
    /\ \E period \in PeriodArgs, date_from \in WindowArgs, date_to \in WindowArgs,
          category \in {None, Widget}, down \in SUBSET (1..1) :
         \E rows \in procurement_query(period, date_from, date_to, category) :
           Return("get_procurement_analysis",
                  [period |-> period, date_from |-> date_from,
                   date_to |-> date_to, category |-> category],
                  get_procurement_analysis(period, rows, down))

Call_get_top_suppliers ==
    /\ pc = "idle"
    /\ \E metric \in {"spending", "transactions", "items", "margin"},
          limit \in LimitArgs, date_from \in WindowArgs, date_to \in WindowArgs,
          down \in SUBSET (1..1) :
         \E rows \in top_suppliers_query(metric, limit, date_from, date_to) :
           Return("get_top_suppliers",
                  [metric |-> metric, limit |-> limit,
                   date_from |-> date_from, date_to |-> date_to],
                  get_top_suppliers(metric, limit, rows, down))

\* the sales and purchase tools
NextSales ==
    \/ Call_get_sales_summary
    \/ Call_get_customer_analysis
    \/ Call_get_revenue_analysis
    \/ Call_get_top_customers
    \/ Call_get_supplier_analysis
    \/ Call_get_procurement_analysis
    \/ Call_get_top_suppliers
    \/ NextRequest

SpecSales == Init /\ [][NextSales]_vars

\* ---------------------------------------------------- analytics tool calls
AnalyticsArgs == valid_analytics_types \cup {"DESCRIPTIVE", "forecast"}

Call_get_financial_analytics ==
    /\ pc = "idle"
    /\ \E analytics_type \in AnalyticsArgs,
          query_focus \in {"cash_flow", "profitability", "liquidity", "margin"},
          start_date \in WindowArgs, end_date \in WindowArgs,
          down \in SUBSET (1..1) :
         Return("get_financial_analytics",
                [analytics_type |-> analytics_type, query_focus |-> query_focus,
                 start_date |-> start_date, end_date |-> end_date],
                get_financial_analytics(analytics_type, query_focus, start_date,
                                        end_date, Today, down))

Call_get_inventory_analytics ==
    /\ pc = "idle"
    /\ \E analytics_type \in AnalyticsArgs,
          query_focus \in {"stock_levels", "movement_patterns", "turnover",
                           "valuation", "margin"},
          start_date \in WindowArgs, end_date \in WindowArgs,
          down \in SUBSET (1..1) :
         Return("get_inventory_analytics",
                [analytics_type |-> analytics_type, query_focus |-> query_focus,
                 start_date |-> start_date, end_date |-> end_date],
                get_inventory_analytics(analytics_type, query_focus, start_date,
                                        end_date, Today, down))

Call_get_sales_analytics ==
    /\ pc = "idle"
    /\ \E analytics_type \in AnalyticsArgs,
          date_from \in WindowArgs, date_to \in WindowArgs,
          down \in SUBSET (1..1) :
         LET raw_data == sales_data_query(date_from, date_to)
         IN \E top_customer \in
                 top_parties(party_totals(SelectSeq(raw_data,
                                 LAMBDA row : positive_amount(row) > 0))) :
              Return("get_sales_analytics",
                     [analytics_type |-> analytics_type, query |-> "trend",
                      date_from |-> date_from, date_to |-> date_to],
                     get_sales_analytics(analytics_type, "trend", raw_data,
                                         top_customer, down))

Call_get_purchase_analytics ==
    /\ pc = "idle"
    /\ \E analytics_type \in AnalyticsArgs,
          date_from \in WindowArgs, date_to \in WindowArgs,
          down \in SUBSET (1..1) :
         LET raw_data == purchase_data_query(date_from, date_to)
         IN \E top_supplier \in top_parties(party_totals(raw_data)) :
              Return("get_purchase_analytics",
                     [analytics_type |-> analytics_type, query |-> "trend",
                      date_from |-> date_from, date_to |-> date_to],
                     get_purchase_analytics(analytics_type, "trend", raw_data,
                                            top_supplier, down))

\* the four analytics tools
NextAnalytics ==
    \/ Call_get_financial_analytics
    \/ Call_get_inventory_analytics
    \/ Call_get_sales_analytics
    \/ Call_get_purchase_analytics
    \/ NextRequest

SpecAnalytics == Init /\ [][NextAnalytics]_vars

\* ------------------------------------------------------ the other tool calls
Call_get_sales_performance ==
    /\ pc = "idle"
    /\ \E date_from \in WindowArgs, date_to \in WindowArgs, down \in SUBSET (1..1) :
         Return("get_sales_performance",
                [date_from |-> date_from, date_to |-> date_to],
                get_sales_performance(date_from, date_to, down))

Call_get_business_overview ==
    /\ pc = "idle"
    /\ \E date_from \in WindowArgs, date_to \in WindowArgs, down \in SUBSET (1..1) :
         Return("get_business_overview",
                [date_from |-> date_from, date_to |-> date_to],
                get_business_overview(date_from, date_to, down))

LatestLimits == {0, 1, 2}

Call_get_latest_transactions ==
    /\ pc = "idle"
    /\ \E transaction_type \in {"payment", "receipt", "both", "refund"},
          limit \in LatestLimits, party_name \in {None, Acme},
          down \in SUBSET (1..1) :
         \E rows \in latest_transactions_query(transaction_type, limit, party_name) :
           Return("get_latest_transactions",
                  [transaction_type |-> transaction_type, limit |-> limit,
                   party_name |-> party_name],
                  get_latest_transactions(transaction_type, limit, rows, down))

Call_get_top_items ==
    /\ pc = "idle"
    /\ \E limit \in LimitArgs, by_value \in BOOLEAN, down \in SUBSET (1..1) :
         \E rows \in top_items_query(limit, by_value) :
           Return("get_top_items",
                  [limit |-> limit, by_value |-> by_value],
                  get_top_items(limit, by_value, rows, down))

\* every tool of the financial, inventory, sales, purchase and manager modules
NextTools ==
    \/ Call_get_account_balance
    \/ Call_get_ledger_summary
    \/ Call_get_cash_flow
    \/ Call_get_profit_loss
    \/ Call_get_payment_receipts
    \/ Call_get_latest_transactions
    \/ Call_get_stock_movements
    \/ Call_get_top_items
    \/ Call_get_sales_summary
    \/ Call_get_customer_analysis
    \/ Call_get_revenue_analysis
    \/ Call_get_top_customers
    \/ Call_get_sales_performance
    \/ Call_get_supplier_analysis
    \/ Call_get_procurement_analysis
    \/ Call_get_top_suppliers
    \/ Call_get_business_overview
    \/ Call_get_financial_analytics
    \/ Call_get_inventory_analytics
    \/ Call_get_sales_analytics
    \/ Call_get_purchase_analytics
    \/ NextRequest

SpecTools == Init /\ [][NextTools]_vars

\* A store in which a voucher can carry several entries and several
\* movements at once.
InitJoin ==
    /\ mst_ledger = LedgerRows
    /\ trn_voucher = VoucherRows
    /\ trn_accounting \in Tables(SelectSeq(AccountingRows, LAMBDA a : a.ledger = Cash),
                                 MaxEntries)
    /\ trn_inventory \in Tables(InventoryRows, MaxJoined - Len(trn_accounting))
    /\ Masters
    /\ Idle

\* the tools that join accounting entries and inventory movements
NextJoin ==
    \/ Call_get_business_overview
    \/ Call_get_top_customers
    \/ Call_get_sales_performance
    \/ Call_get_top_suppliers
    \/ Call_get_supplier_analysis
    \/ NextRequest

SpecJoin == InitJoin /\ [][NextJoin]_vars

\* Ledgers that are income accounts, expense accounts or neither, with any
\* entries (the profit tools read no inventory).
InitProfit ==
    /\ \E flags \in [1..Len(LedgerRows) -> {-1, 0, 1}] :
         mst_ledger = [k \in 1..Len(LedgerRows) |->
                         [LedgerRows[k] EXCEPT !.is_revenue = flags[k]]]
    /\ trn_voucher = VoucherRows
    /\ trn_accounting \in Tables(AccountingRows, MaxEntries)
    /\ trn_inventory = <<>>
    /\ Masters
    /\ Idle

\* the two tools that report income and expenses
NextProfit ==
    \/ Call_get_profit_loss
    \/ Call_get_financial_analytics
    \/ NextRequest

SpecProfit == InitProfit /\ [][NextProfit]_vars

\* the stock items of the item store and their rates
ItemNames == <<Axle, Cam, Widget>>
ItemRates == <<30, 20, 10>>

\* every movement the item store can hold: a voucher, an item, a quantity
ItemRows ==
    [k \in 1..(Len(VoucherRows) * Len(ItemNames) * Len(QuantityValues)) |->
        LET item == (((k - 1) \div Len(QuantityValues)) % Len(ItemNames)) + 1
            quantity_ == QuantityValues[((k - 1) % Len(QuantityValues)) + 1]
        IN [guid |-> ((k - 1) \div (Len(ItemNames) * Len(QuantityValues))) + 1,
            item |-> ItemNames[item], godown |-> Main,
            quantity |-> quantity_,
            rate |-> ItemRates[item],
            amount |-> quantity_ * ItemRates[item]]]

\* A store of several items moved under two vouchers, dated the same day or
\* not.
InitItems ==
    /\ mst_ledger = LedgerRows
    /\ \E day \in 2..MaxDay : trn_voucher = [VoucherRows EXCEPT ![2].date = day]
    /\ trn_accounting = <<>>
    /\ trn_inventory \in Tables(ItemRows, MaxMovements)
    /\ Masters
    /\ Idle

\* the tools that list movements and rank items
NextItems ==
    \/ Call_get_stock_movements
    \/ Call_get_top_items
    \/ NextRequest

SpecItems == InitItems /\ [][NextItems]_vars

\* three payment and receipt vouchers of two parties
Range(s) == {s[k] : k \in 1..Len(s)}

RankedVouchers == <<
    [guid |-> 1, voucher_type |-> Payment, voucher_number |-> 1, party_name |-> Acme],
    [guid |-> 2, voucher_type |-> Receipt, voucher_number |-> 2, party_name |-> Bolt],
    [guid |-> 3, voucher_type |-> Payment, voucher_number |-> 3, party_name |-> Acme] >>

\* The vouchers on any days, each with one cash entry of no or some amount.
InitRanking ==
    /\ mst_ledger = LedgerRows
    /\ \E days \in [1..Len(RankedVouchers) -> 1..MaxDay] :
         trn_voucher = [k \in 1..Len(RankedVouchers) |->
                          [guid |-> RankedVouchers[k].guid,
                           date |-> days[k],
                           voucher_type |-> RankedVouchers[k].voucher_type,
                           voucher_number |-> RankedVouchers[k].voucher_number,
                           party_name |-> RankedVouchers[k].party_name]]
    /\ \E paid \in [1..Len(RankedVouchers) -> {x \in Range(AmountValues) : x >= 0}] :
         trn_accounting = [k \in 1..Len(RankedVouchers) |->
                             [guid |-> RankedVouchers[k].guid, ledger |-> Cash,
                              amount |-> paid[k]]]
    /\ trn_inventory = <<>>
    /\ Masters
    /\ Idle

\* the tools that filter, rank and limit
NextRanking ==
    \/ Call_get_latest_transactions
    \/ Call_get_payment_receipts
    \/ Call_get_top_customers
    \/ Call_get_top_suppliers
    \/ NextRequest

SpecRanking == InitRanking /\ [][NextRanking]_vars

\* every movement the lookup store can hold: a voucher, one of two items, a
\* godown, a quantity
LookupRows ==
    [k \in 1..16 |->
        LET item == (((k - 1) \div 2) % 2) + 1
            quantity_ == <<-1, 2>>[((k - 1) % 2) + 1]
        IN [guid |-> (((k - 1) \div 8) % 2) + 1,
            item |-> ItemNames[item],
            godown |-> <<Main, Yard>>[(((k - 1) \div 4) % 2) + 1],
            quantity |-> quantity_,
            rate |-> ItemRates[item],
            amount |-> quantity_ * ItemRates[item]]]

\* A store whose masters know entities by name and alias, with a few
\* movements of two items in two godowns.
InitLookup ==
    /\ mst_ledger = LedgerRows
    /\ \E day \in 2..MaxDay : trn_voucher = [VoucherRows EXCEPT ![2].date = day]
    /\ trn_accounting = <<>>
    /\ trn_inventory \in Tables(LookupRows, MaxEntries)
    /\ Masters
    /\ Idle

\* item name fragments: an alias (Rod), a fragment shared by several items
\* ("a"), the start of one name, one in no name ("z")
LookupNames == {<<"r", "o", "d">>, <<"a">>, <<"A", "X">>, <<"z">>}

Call_get_item_details ==
    /\ pc = "idle"
    /\ \E item_name \in LookupNames, down \in SUBSET (1..3) :
      \E item_rows \in item_query(item_name),
         transaction_rows \in item_transaction_query(item_name),
         stock_rows \in item_stock_query(item_name) :
        Return("get_item_details", [item_name |-> item_name],
               get_item_details(item_name, item_rows, transaction_rows,
                                stock_rows, down))

Call_get_godown_summary ==
    /\ pc = "idle"
    /\ \E godown_name \in {None, <<"y", "a">>, <<"a">>, <<"z">>},
          down \in SUBSET (1..2) :
      \E master_rows \in godown_query(godown_name),
         stock_rows \in godown_stock_query(godown_name) :
        Return("get_godown_summary", [godown_name |-> godown_name],
               get_godown_summary(godown_name, master_rows, stock_rows, down))

\* the tools that resolve an entity from a name fragment
NextLookup ==
    \/ Call_get_account_balance
    \/ Call_get_item_details
    \/ Call_get_godown_summary
    \/ NextRequest

SpecLookup == InitLookup /\ [][NextLookup]_vars

\* ------------------------------------------------- execute_query, by step
Modules == {"financial", "inventory", "sales", "purchase", "manager"}

\* sales, purchase and manager close the connection in a finally clause;
\* financial and inventory call conn.close() as the last statement of the try
closes_in_finally(module) == module \in {"sales", "purchase", "manager"}

\* an exception inside execute_query: every module returns [], the finally
\* clause (where there is one) closes the connection first
raised ==
    [connection EXCEPT !.pc = "returned", !.failed = TRUE,
                       !.open = IF closes_in_finally(connection.module)
                                THEN 0 ELSE connection.open]

\* sqlite3.connect: a connection, or no connection and [] returned
execute_query_connect ==
    /\ connection.pc = "idle"
    /\ \E module \in Modules, ok \in BOOLEAN :
         connection' =
             IF ok THEN [pc |-> "connected", module |-> module,
                         open |-> 1, failed |-> FALSE]
             ELSE [pc |-> "returned", module |-> module,
                   open |-> 0, failed |-> TRUE]
    /\ UNCHANGED <<store, tool, attempts, files, clock, savers>>

\* cursor.execute(query): runs or raises
execute_query_execute ==
    /\ connection.pc = "connected"
    /\ \E ok \in BOOLEAN :
         connection' = IF ok THEN [connection EXCEPT !.pc = "executed"] ELSE raised
    /\ UNCHANGED <<store, tool, attempts, files, clock, savers>>

\* cursor.fetchall(): the rows or an exception
execute_query_fetch ==
    /\ connection.pc = "executed"
    /\ \E ok \in BOOLEAN :
         connection' = IF ok THEN [connection EXCEPT !.pc = "fetched"] ELSE raised
    /\ UNCHANGED <<store, tool, attempts, files, clock, savers>>

\* conn.close() and return results
execute_query_return ==
    /\ connection.pc = "fetched"
    /\ connection' = [connection EXCEPT !.pc = "returned", !.open = 0]
    /\ UNCHANGED <<store, tool, attempts, files, clock, savers>>

\* the caller goes on to its next query
execute_query_next ==
    /\ connection.pc = "returned"
    /\ connection' = NoConnection
    /\ UNCHANGED <<store, tool, attempts, files, clock, savers>>

NextQuery ==
    \/ execute_query_connect
    \/ execute_query_execute
    \/ execute_query_fetch
    \/ execute_query_return
    \/ execute_query_next

SpecQuery == Init /\ [][NextQuery]_vars

\* ------------------------------------------------------ communication calls
\* no accounting data is involved in a communication call
InitMail ==
    /\ mst_ledger = LedgerRows
    /\ trn_voucher = VoucherRows
    /\ trn_accounting = <<>>
    /\ trn_inventory = <<>>
    /\ Masters
    /\ Idle

Recipients == {"ann@example.com", "bob@example.com"}

Emails == [to : Recipients, subject : {"Invoice", "Reminder"}]

\* a communication tool returns: its payload, the attempts it made and the
\* directory it leaves
Deliver(op, args, out) ==
    /\ pc = "idle"
    /\ pc' = "returned"
    /\ call' = [op |-> op, args |-> args]
    /\ result' = out.result
    /\ attempts' = out.attempts
    /\ files' = out.files
    /\ UNCHANGED <<store, queries, connection, clock, savers>>

\* time passes
Tick ==
    /\ clock < MaxClock
    /\ clock' = clock + 1
    /\ UNCHANGED <<store, tool, connection, attempts, files, savers>>

Call_send_email ==
    /\ pc = "idle"
    /\ \E email \in Emails, smtp_config \in SmtpConfigs, gmail \in GmailOutcomes,
          smtp_ok \in BOOLEAN, file_ok \in BOOLEAN :
         Deliver("send_email",
                 [to |-> email.to, subject |-> email.subject,
                  smtp_config |-> smtp_config],
                 send_email(email, smtp_config, gmail, smtp_ok, file_ok,
                            clock, files))

\* the Gmail API may also fail to return the profile of the sender
ProfileOutcomes == GmailOutcomes \cup {"no_profile"}

Call_send_gmail_message ==
    /\ pc = "idle"
    /\ \E email \in Emails, from_name \in BOOLEAN, gmail \in ProfileOutcomes :
         LET out == send_gmail_message(email, from_name, gmail)
         IN Deliver("send_gmail_message",
                    [to |-> email.to, subject |-> email.subject,
                     from_name |-> from_name],
                    [result |-> out.result, attempts |-> out.attempts,
                     files |-> files])

\* the attendee lists of a meeting, the empty list (or None) included
AttendeeLists == UNION {[1..n -> Recipients] : n \in 0..MaxAttendees}

Call_create_meeting_invitation ==
    /\ pc = "idle"
    /\ \E start_time \in StartTimes, attendees \in AttendeeLists,
          send_invitation \in BOOLEAN, calendar \in CalendarOutcomes :
        \E mail \in [1..Len(attendees) -> ProfileOutcomes] :
         LET out == create_meeting_invitation("Review", start_time, attendees,
                                              send_invitation, calendar, mail)
         IN Deliver("create_meeting_invitation",
                    [title |-> "Review", start_time |-> start_time,
                     attendees |-> attendees, send_invitation |-> send_invitation],
                    [result |-> out.result, attempts |-> out.attempts,
                     files |-> files])

NextMail ==
    \/ Call_send_email
    \/ Call_send_gmail_message
    \/ Call_create_meeting_invitation
    \/ Tick
    \/ NextRequest

SpecMail == InitMail /\ [][NextMail]_vars

\* ------------------------------------------ save_email_to_file, by step
\* a caller reads the clock and forms the file name ...
save_email_to_file_name(p) ==
    /\ savers[p].pc = "idle"
    /\ \E email \in Emails :
         savers' = [savers EXCEPT ![p] = [pc |-> "named", email |-> email,
                                          filename |-> email_filename(clock)]]
    /\ UNCHANGED <<store, tool, connection, attempts, files, clock>>

\* ... then opens the file for writing and writes the email, or fails to
save_email_to_file_write(p) ==
    /\ savers[p].pc = "named"
    /\ \E file_ok \in BOOLEAN :
         /\ files' = IF file_ok
                     THEN written(files, savers[p].filename, savers[p].email)
                     ELSE files
         /\ savers' = [savers EXCEPT ![p].pc = IF file_ok THEN "saved" ELSE "error"]
    /\ UNCHANGED <<store, tool, connection, attempts, clock>>

\* the callers of save_email_to_file run one after the other or interleaved
NextSave ==
    \/ \E p \in Savers : save_email_to_file_name(p)
    \/ \E p \in Savers : save_email_to_file_write(p)
    \/ Tick

SpecSave == InitMail /\ [][NextSave]_vars

\* ------------------------------------------------------------ properties
all_ok == \A k \in 1..Len(queries) : queries[k].ok

returned(op) == pc = "returned" /\ call.op = op

\* the ledger account of a name
account(name) == CHOOSE l \in {mst_ledger[k] : k \in 1..Len(mst_ledger)} : l.name = name

\* voucher date of the k-th accounting entry
entry_date(k) ==
    (CHOOSE v \in {trn_voucher[j] : j \in 1..Len(trn_voucher)} :
        v.guid = trn_accounting[k].guid).date

\* the entries of an account, and those dated up to a day
entries_of(name) == {k \in 1..Len(trn_accounting) : trn_accounting[k].ledger = name}

entries_until(name, day) == {k \in entries_of(name) : entry_date(k) <= day}

\* C: sum of the positive amounts of a set of entries
RECURSIVE C(_)
C(S) == IF S = {} THEN 0
        ELSE LET k == CHOOSE k \in S : TRUE
                 x == trn_accounting[k].amount
             IN (IF x > 0 THEN x ELSE 0) + C(S \ {k})

\* D: sum of the absolute negative amounts of a set of entries
RECURSIVE D(_)
D(S) == IF S = {} THEN 0
        ELSE LET k == CHOOSE k \in S : TRUE
                 x == trn_accounting[k].amount
             IN (IF x < 0 THEN -x ELSE 0) + D(S \ {k})

\* O + D - C for a debit-positive account, O + C - D otherwise
signed_balance(l, S) ==
    IF l.is_deemedpositive = 1
    THEN l.opening_balance + D(S) - C(S)
    ELSE l.opening_balance + C(S) - D(S)

\* C1: whenever the store answered, get_account_balance (no as_of_date) and
\* every account line of get_ledger_summary report balance = O + D - C for a
\* debit-positive account and O + C - D otherwise, C and D being the sums of
\* the positive and of the absolute negative amounts of the account's entries.
C1_BalanceSign ==
    /\ (returned("get_account_balance") /\ result.status = "success" /\ all_ok
         /\ ~truthy(call.args.as_of_date))
        => result.balance = signed_balance(account(result.account_name),
                                           entries_of(result.account_name))
    /\ (returned("get_ledger_summary") /\ result.status = "success" /\ all_ok)
        => \A k \in 1..Len(result.accounts) :
              result.accounts[k].balance =
                  signed_balance(account(result.accounts[k].account_name),
                                 entries_of(result.accounts[k].account_name))

\* C1 witness: opening 1000, debit-positive, one debit of 500 and one credit
\* of 200 give 1300.
C1_Witness ==
    /\ returned("get_account_balance") /\ result.status = "success" /\ all_ok
    /\ ~truthy(call.args.as_of_date)
    /\ account(result.account_name).is_deemedpositive = 1
    /\ C(entries_of(result.account_name)) = 200
    /\ D(entries_of(result.account_name)) = 500
    /\ result.balance = 1300

\* C2: with a well-formed as_of_date get_account_balance sums exactly the
\* entries of the resolved account dated on or before it; with none it sums
\* all of them; an as_of_date on or after the latest voucher date gives the
\* balance of the unbounded mode.
C2_AsOfDate ==
    (returned("get_account_balance") /\ result.status = "success" /\ all_ok)
    => LET name == result.account_name
           as_of == call.args.as_of_date
       IN /\ as_of.kind = "iso" =>
                /\ result.total_credits = C(entries_until(name, as_of.day))
                /\ result.total_debits = D(entries_until(name, as_of.day))
                /\ result.balance =
                       signed_balance(account(name), entries_until(name, as_of.day))
          /\ as_of.kind = "none" =>
                /\ result.total_credits = C(entries_of(name))
                /\ result.total_debits = D(entries_of(name))
          /\ (as_of.kind = "iso"
               /\ \A j \in 1..Len(trn_voucher) : trn_voucher[j].date <= as_of.day)
              => result.balance = signed_balance(account(name), entries_of(name))

\* C2 witness: an entry dated on the as_of_date is counted while a later
\* entry of the same account is left out.
C2_Witness ==
    /\ returned("get_account_balance") /\ result.status = "success" /\ all_ok
    /\ call.args.as_of_date.kind = "iso"
    /\ \E k \in entries_of(result.account_name) :
          entry_date(k) = call.args.as_of_date.day /\ trn_accounting[k].amount # 0
    /\ \E k \in entries_of(result.account_name) :
          entry_date(k) > call.args.as_of_date.day /\ trn_accounting[k].amount # 0

\* a well-formed window with start on or before end
valid_window(s, e) == s.kind = "iso" /\ e.kind = "iso" /\ s.day <= e.day

\* the vouchers dated inside [s, e]
vouchers_within(s, e) ==
    {j \in 1..Len(trn_voucher) :
        s.day <= trn_voucher[j].date /\ trn_voucher[j].date <= e.day}

\* the vouchers inside the requested window that the request of a windowed
\* tool is about: with a cash or bank entry, with an entry on an income or
\* expense ledger, of the requested kind and party with an entry, with a
\* movement of the requested item
matching(op, args) ==
    {j \in vouchers_within(args.start_date, args.end_date) :
        LET v == trn_voucher[j]
            entries == {k \in 1..Len(trn_accounting) : trn_accounting[k].guid = v.guid}
            moves == {k \in 1..Len(trn_inventory) : trn_inventory[k].guid = v.guid}
        IN CASE op = "get_cash_flow" ->
                  \E k \in entries : \/ LIKE(trn_accounting[k].ledger, Cash)
                                     \/ LIKE(trn_accounting[k].ledger, Bank)
             [] op = "get_profit_loss" ->
                  \E k \in entries : account(trn_accounting[k].ledger).is_revenue # -1
             [] op = "get_payment_receipts" ->
                  /\ entries # {}
                  /\ \/ args.transaction_type \in {"payment", "both"}
                        /\ LIKE(v.voucher_type, Payment)
                     \/ args.transaction_type \in {"receipt", "both"}
                        /\ LIKE(v.voucher_type, Receipt)
                  /\ (args.party_name # None => LIKE(v.party_name, args.party_name))
             [] op = "get_stock_movements" ->
                  \E k \in moves :
                     args.item_name # None => LIKE(trn_inventory[k].item, args.item_name)}

WindowTools ==
    {"get_cash_flow", "get_profit_loss", "get_payment_receipts", "get_stock_movements"}

\* C5: get_cash_flow, get_profit_loss, get_payment_receipts and
\* get_stock_movements, asked for a valid window [start, end] in which no
\* matching voucher falls, return status no_data and the payload carries the
\* requested start_date and end_date.
C5_EmptyWindow ==
    \A op \in WindowTools :
        (/\ returned(op)
         /\ valid_window(call.args.start_date, call.args.end_date)
         /\ (op = "get_payment_receipts"
               => call.args.transaction_type \in {"payment", "receipt", "both"})
         /\ matching(op, call.args) = {})
        => /\ result.status = "no_data"
           /\ result.start_date = call.args.start_date
           /\ result.end_date = call.args.end_date

\* C5 witness: the store holds stock movements and answers, none of them
\* is dated inside the valid window asked for, and get_stock_movements
\* returns no_data with that window.
C5_Witness ==
    /\ returned("get_stock_movements") /\ all_ok
    /\ trn_inventory # <<>>
    /\ valid_window(call.args.start_date, call.args.end_date)
    /\ call.args.start_date.day < call.args.end_date.day
    /\ matching("get_stock_movements", call.args) = {}
    /\ result.status = "no_data"
    /\ result.start_date = call.args.start_date
    /\ result.end_date = call.args.end_date

\* ------------------------------------------------ the arguments of a call
has(field) == field \in DOMAIN call.args

DateFields == {"as_of_date", "start_date", "end_date", "date_from", "date_to"}

date_arguments == {call.args[f] : f \in DOMAIN call.args \cap DateFields}

takes_window == has("start_date") \/ has("date_from")

window_start == IF has("start_date") THEN call.args.start_date ELSE call.args.date_from

window_end == IF has("end_date") THEN call.args.end_date ELSE call.args.date_to

\* each bound absent or well formed, and start on or before end
well_formed_window ==
    /\ window_start.kind \in {"none", "iso"}
    /\ window_end.kind \in {"none", "iso"}
    /\ (window_start.kind = "iso" /\ window_end.kind = "iso")
          => window_start.day <= window_end.day

EnumFields == {"transaction_type", "analytics_type", "query_focus", "period", "metric"}

\* the values an enumerated parameter of a tool names
recognized(op, field) ==
    CASE field = "transaction_type" -> {"payment", "receipt", "both"}
      [] field = "analytics_type" -> valid_analytics_types
      [] field = "period" -> {"daily", "weekly", "monthly"}
      [] field = "metric" ->
            IF op = "get_top_customers" THEN {"revenue", "transactions", "quantity"}
            ELSE {"spending", "transactions", "items"}
      [] field = "query_focus" ->
            IF op = "get_financial_analytics" THEN valid_focus_areas
            ELSE valid_inventory_focus_areas

unrecognized ==
    \E f \in DOMAIN call.args \cap EnumFields : call.args[f] \notin recognized(call.op, f)

\* C3: every tool that takes a date window, asked for a window whose start
\* is after its end, returns status error and issues no query.
C3_DateRangeRejection ==
    (/\ pc = "returned" /\ takes_window
     /\ window_start.kind = "iso" /\ window_end.kind = "iso"
     /\ window_start.day > window_end.day)
    => result.status = "error" /\ queries = <<>>

\* the payload names an entity that was not found
not_found ==
    /\ "error_message" \in DOMAIN result
    /\ result.error_message = "Account not found"

\* C4: a call during which the store could not be reached or a query failed
\* returns status error, and reports neither no_data nor an entity not found.
C4_FailureIsError ==
    (pc = "returned" /\ ~all_ok)
    => result.status = "error" /\ ~not_found

SalesPurchaseTools ==
    {"get_sales_summary", "get_customer_analysis", "get_revenue_analysis",
     "get_top_customers", "get_supplier_analysis", "get_procurement_analysis",
     "get_top_suppliers"}

\* the vouchers the filters of a sales or purchase request select
selected_vouchers ==
    {j \in 1..Len(trn_voucher) :
        LET v == trn_voucher[j]
        IN /\ (window_start.kind = "iso" => v.date >= window_start.day)
           /\ (window_end.kind = "iso" => v.date <= window_end.day)
           /\ (has("customer") /\ call.args.customer # None
                 => LIKE(v.party_name, call.args.customer))
           /\ (has("supplier") /\ call.args.supplier # None
                 => LIKE(v.party_name, call.args.supplier))
           /\ (has("voucher_type") /\ call.args.voucher_type # None
                 => v.voucher_type = call.args.voucher_type)}

\* C6: a sales or purchase tool whose request is valid and whose query the
\* store answered returns no_data when its filters select no transaction,
\* and never status error.
C6_NoDataNotError ==
    (/\ pc = "returned" /\ call.op \in SalesPurchaseTools
     /\ well_formed_window /\ ~unrecognized /\ all_ok)
    => /\ selected_vouchers = {} => result.status = "no_data"
       /\ result.status # "error"

MultiQueryTools == {"get_account_balance", "get_item_details", "get_godown_summary"}

\* C7: a tool that issues several queries returns, when any of them failed,
\* an error outcome that carries no payload; it returns success only when
\* all of them succeeded.
C7_AllQueriesOrError ==
    (pc = "returned" /\ call.op \in MultiQueryTools /\ ~all_ok)
    => /\ result.status = "error"
       /\ DOMAIN result \subseteq {"status", "error_message"}

\* C8: a call given a date string that is not a valid YYYY-MM-DD date, as
\* one bound of a window or alone, returns status error and issues no query.
C8_InvalidDateRejected ==
    (pc = "returned" /\ \E d \in date_arguments : d.kind = "malformed")
    => result.status = "error" /\ queries = <<>>

\* C9: a call whose enumerated parameter holds a value the tool does not
\* name returns status error and issues no query.
C9_EnumRejected ==
    (pc = "returned" /\ unrecognized)
    => result.status = "error" /\ queries = <<>>

AnalyticsTools ==
    {"get_financial_analytics", "get_inventory_analytics",
     "get_sales_analytics", "get_purchase_analytics"}

\* the payloads that reject the analytics type itself
type_rejections ==
    {error("Analytics type must be one of"), failure("Unknown analytics type")}

\* C10: an analytics tool called with one of the five tiers, otherwise valid
\* inputs and a store that holds data and answers does not reject the tier.
C10_TiersAccepted ==
    (/\ pc = "returned" /\ call.op \in AnalyticsTools
     /\ call.args.analytics_type \in valid_analytics_types
     /\ (has("query_focus")
           => call.args.query_focus \in recognized(call.op, "query_focus"))
     /\ well_formed_window /\ all_ok
     /\ trn_accounting # <<>> /\ trn_inventory # <<>>)
    => result \notin type_rejections

voucher_of(guid) ==
    CHOOSE v \in {trn_voucher[k] : k \in 1..Len(trn_voucher)} : v.guid = guid

\* the row belongs to a voucher of the call's window (and of the party)
in_scope(row, party) ==
    /\ date_conditions(voucher_of(row.guid).date,
                       call.args.date_from, call.args.date_to)
    /\ (party # None => voucher_of(row.guid).party_name = party)

\* each entry of the scope counted once
inflow_once(party) ==
    sum([k \in 1..Len(trn_accounting) |->
            IF in_scope(trn_accounting[k], party) /\ trn_accounting[k].amount > 0
            THEN trn_accounting[k].amount ELSE 0])

outflow_once(party) ==
    sum([k \in 1..Len(trn_accounting) |->
            IF in_scope(trn_accounting[k], party) /\ trn_accounting[k].amount < 0
            THEN -trn_accounting[k].amount ELSE 0])

\* each movement of the scope counted once
inward_once(party) ==
    sum([k \in 1..Len(trn_inventory) |->
            IF in_scope(trn_inventory[k], party) /\ trn_inventory[k].quantity > 0
            THEN trn_inventory[k].quantity ELSE 0])

outward_once(party) ==
    sum([k \in 1..Len(trn_inventory) |->
            IF in_scope(trn_inventory[k], party) /\ trn_inventory[k].quantity < 0
            THEN -trn_inventory[k].quantity ELSE 0])

\* C12: in the tools that join entries and movements of the same vouchers,
\* every monetary sum counts each accounting entry once and every quantity
\* sum counts each inventory movement once, however many rows of the other
\* kind share the voucher.
C12_CountedOnce ==
    (pc = "returned" /\ all_ok /\ result.status = "success") =>
        CASE call.op = "get_business_overview" ->
               LET f == result.business_overview.financial_metrics
                   o == result.business_overview.operational_metrics
               IN /\ f.total_inflows = inflow_once(None)
                  /\ f.total_outflows = outflow_once(None)
                  /\ f.net_position = inflow_once(None) - outflow_once(None)
                  /\ o.total_inward_qty = inward_once(None)
                  /\ o.total_outward_qty = outward_once(None)
          [] call.op = "get_sales_performance" ->
               /\ result.performance_metrics.total_revenue = inflow_once(None)
               /\ result.performance_metrics.total_quantity = inward_once(None)
          [] call.op = "get_top_customers" ->
               \A k \in 1..Len(result.top_customers) :
                  LET row == result.top_customers[k]
                  IN /\ row.total_revenue = inflow_once(row.customer_name)
                     /\ row.total_quantity = inward_once(row.customer_name)
          [] call.op = "get_top_suppliers" ->
               \A k \in 1..Len(result.top_suppliers) :
                  result.top_suppliers[k].total_spending =
                      inflow_once(result.top_suppliers[k].supplier_name)
          [] call.op = "get_supplier_analysis" ->
               \A k \in 1..Len(result.suppliers) :
                  result.suppliers[k].total_spending =
                      inflow_once(result.suppliers[k].supplier_name)
          [] OTHER -> TRUE

\* what get_financial_analytics reports on profitability for the window of
\* the call under examination
profitability ==
    get_financial_analytics("descriptive", "profitability", call.args.start_date,
                            call.args.end_date, Today, {}).result

\* C13: get_profit_loss reports net_profit = total_income - total_expenses,
\* and its two totals are the income and expense totals that
\* get_financial_analytics (profitability) reports for the same window.
C13_ProfitLossAgrees ==
    (returned("get_profit_loss") /\ all_ok /\ result.status = "success") =>
        /\ result.net_profit = result.total_income - result.total_expenses
        /\ profitability.status = "success"
        /\ profitability.analytics_results.data_summary[1].total_income
              = <<result.total_income>>
        /\ profitability.analytics_results.data_summary[1].total_expenses
              = <<result.total_expenses>>

\* the entries get_cash_flow is about: those of a cash or bank ledger whose
\* voucher is dated within the window of the call
cash_entries ==
    SelectSeq(trn_accounting,
        LAMBDA a : /\ (LIKE(a.ledger, Cash) \/ LIKE(a.ledger, Bank))
                   /\ voucher_of(a.guid).date >= strptime(call.args.start_date)
                   /\ voucher_of(a.guid).date <= strptime(call.args.end_date))

\* the sum of one field of the per-voucher-type breakdown
breakdown_total(field) ==
    LET types == listing(DOMAIN result.cash_flow_by_type)
    IN sum([k \in 1..Len(types) |-> result.cash_flow_by_type[types[k]][field]])

ties_by_name(rows, metric, name) ==
    \A k \in 1..(Len(rows) - 1) :
        rows[k][metric] = rows[k + 1][metric] =>
            text_le(rows[k][name], rows[k + 1][name])

\* C15: a top-K ranking (get_top_customers, get_top_suppliers,
\* get_top_items) is the same list on every run of the same call on the same
\* data: entities whose metric values are equal come in ascending order of
\* their names.
C15_RankingDeterministic ==
    (pc = "returned" /\ all_ok /\ result.status = "success") =>
        CASE call.op = "get_top_customers" ->
               ties_by_name(result.top_customers,
                            top_customers_order(call.args.metric), "customer_name")
          [] call.op = "get_top_suppliers" ->
               ties_by_name(result.top_suppliers,
                            top_suppliers_order(call.args.metric), "supplier_name")
          [] call.op = "get_top_items" ->
               ties_by_name(result.top_items,
                            IF call.args.by_value THEN "total_value"
                            ELSE "total_quantity", "item_name")
          [] OTHER -> TRUE

\* the items that have movements, and the metric get_top_items ranks by
moved_items == {trn_inventory[k].item : k \in 1..Len(trn_inventory)}

item_metric(item) ==
    sum([k \in 1..Len(trn_inventory) |->
            IF trn_inventory[k].item # item THEN 0
            ELSE IF call.args.by_value THEN abs(trn_inventory[k].amount)
            ELSE abs(trn_inventory[k].quantity)])

\* C16: get_top_items(limit = N, by_value) returns the N highest items by
\* total value (by_value) or total quantity: min(N, number of items) entries,
\* in non-increasing order of the metric, and no item left out has a larger
\* metric than one returned.
C16_TopItems ==
    (returned("get_top_items") /\ all_ok /\ result.status = "success") =>
        LET rows == result.top_items
            metric == IF call.args.by_value THEN "total_value" ELSE "total_quantity"
            included == {rows[k].item_name : k \in 1..Len(rows)}
        IN /\ Len(rows) = IF call.args.limit < Cardinality(moved_items)
                          THEN call.args.limit ELSE Cardinality(moved_items)
           /\ Cardinality(included) = Len(rows)
           /\ included \subseteq moved_items
           /\ \A k \in 1..Len(rows) : rows[k][metric] = item_metric(rows[k].item_name)
           /\ \A k \in 1..(Len(rows) - 1) : rows[k][metric] >= rows[k + 1][metric]
           /\ \A x \in moved_items \ included : \A y \in included :
                 item_metric(x) <= item_metric(y)

\* a ranking that leaves out an item of a smaller metric
C16_Witness ==
    /\ returned("get_top_items")
    /\ all_ok
    /\ result.status = "success"
    /\ Len(result.top_items) = 2
    /\ result.top_items[1].total_value > result.top_items[2].total_value
    /\ \E x \in moved_items :
          /\ \A k \in 1..2 : result.top_items[k].item_name # x
          /\ item_metric(x) < result.top_items[2].total_value

\* the vouchers a transaction listing is about: those with entries, of the
\* requested type, of the requested party and, when it has a window, within it
listed(windowed) ==
    {v \in {trn_voucher[k] : k \in 1..Len(trn_voucher)} :
        /\ \E k \in 1..Len(trn_accounting) : trn_accounting[k].guid = v.guid
        /\ voucher_filter(call.args.transaction_type, v.voucher_type)
        /\ (call.args.party_name # None => LIKE(v.party_name, call.args.party_name))
        /\ (windowed => /\ v.date >= strptime(result.start_date)
                        /\ v.date <= strptime(result.end_date))}

\* x is ranked before y: later date, or same date and larger voucher number
later(x, y) ==
    \/ x.date > y.date
    \/ x.date = y.date /\ x.voucher_number > y.voucher_number

\* rows are the first n of the eligible vouchers in rank order
first_vouchers(rows, eligible, n) ==
    /\ \A k \in 1..Len(rows) :
          \E v \in eligible : /\ v.voucher_number = rows[k].voucher_number
                              /\ v.date = rows[k].date
                              /\ v.party_name = rows[k].party_name
    /\ Len(rows) = IF n < Cardinality(eligible) THEN n ELSE Cardinality(eligible)
    /\ \A k \in 1..(Len(rows) - 1) : later(rows[k], rows[k + 1])
    /\ \A v \in eligible :
          (\A k \in 1..Len(rows) : rows[k].voucher_number # v.voucher_number)
              => \A k \in 1..Len(rows) : later(rows[k], v)

\* the vouchers within the date window of a ranking call
windowed_vouchers ==
    {v \in {trn_voucher[k] : k \in 1..Len(trn_voucher)} :
        date_conditions(v.date, call.args.date_from, call.args.date_to)}

\* those of them that have an entry of a positive amount
paid_vouchers ==
    {v \in windowed_vouchers :
        \E k \in 1..Len(trn_accounting) :
            trn_accounting[k].guid = v.guid /\ trn_accounting[k].amount > 0}

\* the metric of a party over the window, from the tables
party_metric(party, field) ==
    IF field \in {"total_revenue", "total_spending"} THEN inflow_once(party)
    ELSE IF field = "total_quantity" THEN inward_once(party)
    ELSE IF field = "unique_items"
    THEN Cardinality({trn_inventory[k].item :
                        k \in {j \in 1..Len(trn_inventory) :
                                 \E v \in paid_vouchers :
                                    /\ v.party_name = party
                                    /\ v.guid = trn_inventory[j].guid}})
    ELSE IF call.op = "get_top_customers"
    THEN Cardinality({v \in windowed_vouchers : v.party_name = party})
    ELSE Cardinality({v \in paid_vouchers : v.party_name = party})

\* rows are the first n of the eligible parties in rank order
first_parties(rows, eligible, n, field, name) ==
    /\ \A k \in 1..Len(rows) :
          /\ rows[k][name] \in eligible
          /\ rows[k][field] = party_metric(rows[k][name], field)
    /\ Cardinality({rows[k][name] : k \in 1..Len(rows)}) = Len(rows)
    /\ Len(rows) = IF n < Cardinality(eligible) THEN n ELSE Cardinality(eligible)
    /\ \A k \in 1..(Len(rows) - 1) : rows[k][field] >= rows[k + 1][field]
    /\ \A p \in eligible :
          (\A k \in 1..Len(rows) : rows[k][name] # p)
              => \A k \in 1..Len(rows) : rows[k][field] >= party_metric(p, field)

\* C17: filters apply before ranking and limiting: in get_latest_transactions
\* and get_payment_receipts (party filter with limit) and in
\* get_top_customers and get_top_suppliers (date window with limit) every
\* returned row satisfies the filter and the result is the first N rows of
\* the ranked filtered set.
C17_FilterThenRank ==
    (pc = "returned" /\ all_ok /\ result.status = "success") =>
        CASE call.op = "get_latest_transactions" ->
               first_vouchers(result.transactions, listed(FALSE), call.args.limit)
          [] call.op = "get_payment_receipts" /\ call.args.limit > 0 ->
               first_vouchers(result.transactions, listed(TRUE), call.args.limit)
          [] call.op = "get_top_customers" ->
               first_parties(result.top_customers,
                             {v.party_name : v \in windowed_vouchers},
                             call.args.limit,
                             top_customers_order(call.args.metric), "customer_name")
          [] call.op = "get_top_suppliers" ->
               first_parties(result.top_suppliers,
                             {v.party_name : v \in paid_vouchers},
                             call.args.limit,
                             top_suppliers_order(call.args.metric), "supplier_name")
          [] OTHER -> TRUE

\* the latest voucher of all belongs to another party than the one asked
\* for, and the one row returned is the latest of the party asked for
C17_Witness ==
    /\ returned("get_latest_transactions")
    /\ all_ok
    /\ result.status = "success"
    /\ call.args.party_name = Acme
    /\ call.args.limit = 1
    /\ Cardinality(listed(FALSE)) = 2
    /\ result.transactions[1].party_name = Acme
    /\ \E v \in {trn_voucher[k] : k \in 1..Len(trn_voucher)} :
          /\ v.party_name = Bolt
          /\ voucher_filter(call.args.transaction_type, v.voucher_type)
          /\ later(v, result.transactions[1])

\* C18: get_latest_transactions takes no date range and filters on no date:
\* with a valid transaction type it returns, for limit N, the latest
\* min(N, number of matching vouchers) of all matching vouchers whatever
\* their dates, so at most N, ordered by date descending and then voucher
\* number descending, and date_range spans the minimum and the maximum date
\* of the returned transactions.
C18_LatestTransactions ==
    (returned("get_latest_transactions") /\ all_ok
        /\ call.args.transaction_type \in {"payment", "receipt", "both"}) =>
        /\ "start_date" \notin DOMAIN call.args
        /\ result.status \in {"success", "no_data"}
        /\ result.status = "no_data" =>
              (call.args.limit = 0 \/ listed(FALSE) = {})
        /\ result.status = "success" =>
              LET rows == result.transactions
                  dates == {rows[k].date : k \in 1..Len(rows)}
              IN /\ Len(rows) <= call.args.limit
                 /\ Len(rows) = result.transaction_count
                 /\ first_vouchers(rows, listed(FALSE), call.args.limit)
                 /\ \A k \in 1..(Len(rows) - 1) :
                       \/ rows[k].date > rows[k + 1].date
                       \/ /\ rows[k].date = rows[k + 1].date
                          /\ rows[k].voucher_number > rows[k + 1].voucher_number
                 /\ \A d \in dates : /\ result.date_range.oldest_date <= d
                                     /\ result.date_range.latest_date >= d
                 /\ result.date_range.oldest_date \in dates
                 /\ result.date_range.latest_date \in dates

\* two of three matching vouchers returned, of different dates
C18_Witness ==
    /\ returned("get_latest_transactions")
    /\ all_ok
    /\ result.status = "success"
    /\ call.args.limit = 2
    /\ Cardinality(listed(FALSE)) = 3
    /\ Len(result.transactions) = 2
    /\ result.date_range.oldest_date < result.date_range.latest_date

\* C19: get_stock_movements lists the movements of the window by date
\* descending and, within a date, by voucher number descending; each is
\* tagged IN for a positive quantity, OUT for a negative one and NEUTRAL
\* for zero.
C19_MovementOrder ==
    (returned("get_stock_movements") /\ all_ok /\ result.status = "success") =>
        LET rows == result.movements
        IN /\ \A k \in 1..(Len(rows) - 1) :
                 \/ rows[k].date > rows[k + 1].date
                 \/ /\ rows[k].date = rows[k + 1].date
                    /\ rows[k].voucher_number >= rows[k + 1].voucher_number
           /\ \A k \in 1..Len(rows) :
                 rows[k].movement_type =
                     IF rows[k].quantity > 0 THEN "IN"
                     ELSE IF rows[k].quantity < 0 THEN "OUT" ELSE "NEUTRAL"

\* the shapes of period keys: D a digit, the other characters literal
has_shape(key, shape) ==
    /\ Len(key) = Len(shape)
    /\ \A k \in 1..Len(shape) :
          IF shape[k] = "D" THEN key[k] \in Range(Digits) ELSE key[k] = shape[k]

Daily == <<"D", "D", "D", "D", "-", "D", "D", "-", "D", "D">>
Weekly == <<"D", "D", "D", "D", "-", "W", "D", "D">>
Monthly == <<"D", "D", "D", "D", "-", "D", "D">>

\* C20: get_revenue_analysis and get_procurement_analysis emit period keys
\* of the form YYYY-MM-DD for daily, YYYY-Www for weekly and YYYY-MM for
\* monthly grouping, so that no weekly key reads as a monthly key.
C20_PeriodKeys ==
    (pc = "returned" /\ all_ok /\ result.status = "success"
        /\ call.op \in {"get_revenue_analysis", "get_procurement_analysis"}
        /\ call.args.period \in {"daily", "weekly", "monthly"}) =>
        LET rows == IF call.op = "get_revenue_analysis"
                    THEN result.revenue_analysis ELSE result.procurement_analysis
        IN \A k \in 1..Len(rows) :
              /\ call.args.period = "daily" => has_shape(rows[k].period, Daily)
              /\ call.args.period = "weekly" =>
                    /\ has_shape(rows[k].period, Weekly)
                    /\ ~has_shape(rows[k].period, Monthly)
              /\ call.args.period = "monthly" => has_shape(rows[k].period, Monthly)


\* the rows of a master table known by the fragment: in the canonical name or
\* in the alias, whatever the case of the letters
known_as(master, fragment) ==
    {k \in 1..Len(master) :
        LIKE(master[k].name, fragment) \/ LIKE(master[k].alias, fragment)}

\* C21: a fragment contained (case-insensitively) in the alias of an account
\* or of an item, even when it is in no canonical name, resolves to an entity
\* known by that fragment in get_account_balance and in get_item_details.
C21_AliasResolves ==
    /\ (returned("get_account_balance") /\ queries # <<>> /\ queries[1].ok
         /\ known_as(mst_ledger, call.args.account_name) # {})
        => /\ result.status = "success"
           /\ \E k \in known_as(mst_ledger, call.args.account_name) :
                 mst_ledger[k].name = result.account_name
    /\ (returned("get_item_details") /\ queries # <<>> /\ queries[1].ok
         /\ known_as(mst_stock_item, call.args.item_name) # {})
        => /\ result.status = "success"
           /\ \E k \in known_as(mst_stock_item, call.args.item_name) :
                 mst_stock_item[k].name = result.item_master.name


\* C22: when a fragment matches several entities, the entity that
\* get_account_balance and get_item_details report is the same whatever the
\* order in which the store returns the matching rows.
C22_FirstMatchFixed ==
    /\ (returned("get_account_balance") /\ result.status = "success")
        => \A rows \in ledger_query(call.args.account_name) :
              rows[1].name = result.account_name
    /\ (returned("get_item_details") /\ result.status = "success")
        => \A rows \in item_query(call.args.item_name) :
              rows[1].name = result.item_master.name


\* the movements of the item called name, each with its voucher
movements_of(name) == SelectSeq(inventory_voucher, LAMBDA p : p.i.item = name)

\* the quantities of the item called name moved in a godown
quantities_in(name, godown) ==
    LET rows == SelectSeq(trn_inventory,
                          LAMBDA i : i.item = name /\ i.godown = godown)
    IN [k \in 1..Len(rows) |-> rows[k].quantity]

\* C28: in a successful get_item_details answer, recent_transactions lists
\* movements of the item reported in item_master only (as many as it has, up
\* to ten) and current_stock has one line per godown of that item, with the
\* sum of that item's quantities there.
C28_SingleItem ==
    (returned("get_item_details") /\ result.status = "success" /\ all_ok)
    => LET name == result.item_master.name
           recent == result.recent_transactions
           stock == result.current_stock
       IN /\ Len(recent) = IF Len(movements_of(name)) < RecentLimit
                           THEN Len(movements_of(name)) ELSE RecentLimit
          /\ \A k \in 1..Len(recent) :
                \E p \in Range(movements_of(name)) :
                    /\ p.i.quantity = recent[k].quantity
                    /\ p.i.godown = recent[k].godown
                    /\ p.i.rate = recent[k].rate
                    /\ p.v.voucher_number = recent[k].voucher_number
          /\ {stock[k].godown : k \in 1..Len(stock)}
                = {p.i.godown : p \in Range(movements_of(name))}
          /\ \A k \in 1..Len(stock) :
                stock[k].current_stock = sum(quantities_in(name, stock[k].godown))


\* the answer of a tool that ran its query over a window
answered == result.status \in {"success", "no_data"}

\* a bound the caller supplied is validated, and used when well formed
bound_honoured(given, used) ==
    truthy(given) =>
        IF strptime_ok(given) THEN answered => used = given
        ELSE result.status = "error"

\* C23: get_payment_receipts runs over the 180 days up to today exactly when
\* the caller gave neither date; a bound the caller did give is validated
\* and used, never replaced by the default.
C23_DefaultWindow ==
    (returned("get_payment_receipts")
      /\ call.args.transaction_type \in {"payment", "receipt", "both"})
    => /\ (answered /\ ~truthy(call.args.start_date) /\ ~truthy(call.args.end_date))
            => strptime(result.end_date) - strptime(result.start_date) = LookbackDays
       /\ bound_honoured(call.args.start_date,
                         IF answered THEN result.start_date ELSE NoDate)
       /\ bound_honoured(call.args.end_date,
                         IF answered THEN result.end_date ELSE NoDate)


\* a get_financial_analytics call with a recognized type and focus over a
\* well-formed window in which no voucher has an accounting entry, answered
\* by the store
empty_analytics_window ==
    /\ returned("get_financial_analytics")
    /\ call.args.analytics_type \in valid_analytics_types
    /\ call.args.query_focus \in valid_focus_areas
    /\ valid_window(call.args.start_date, call.args.end_date)
    /\ all_ok
    /\ \A k \in 1..Len(trn_accounting) :
          ~(/\ call.args.start_date.day <= entry_date(k)
            /\ entry_date(k) <= call.args.end_date.day)

\* C27: get_financial_analytics over a valid window without transactions
\* answers no_data (so never error), for every analytics type and focus.
C27_EmptyWindowNoData == empty_analytics_window => result.status = "no_data"


\* C24: when execute_query returns, on the normal path or after an exception
\* in executing or fetching, the connection it opened is closed.
C24_ConnectionClosed == connection.pc = "returned" => connection.open = 0


\* the strategies of send_email in the order the contract gives them
StrategyOrder == <<"Gmail API", "SMTP", "File Output">>

position(strategy) == CHOOSE k \in 1..Len(StrategyOrder) : StrategyOrder[k] = strategy

tried(strategy) == \E k \in 1..Len(attempts) : attempts[k].strategy = strategy

\* C25: send_email tries the Gmail API first, SMTP only after the Gmail API
\* failed and only with an smtp_config, the file only after every strategy
\* tried before it failed; it tries no strategy twice, stops at the first
\* success, and answers error only when every strategy it tried failed, the
\* file included.
C25_FallbackOrder ==
    returned("send_email")
    => /\ attempts # <<>> /\ attempts[1].strategy = "Gmail API"
       /\ \A j, k \in 1..Len(attempts) :
             j < k => /\ position(attempts[j].strategy) < position(attempts[k].strategy)
                      /\ ~attempts[j].ok
       /\ tried("SMTP") => call.args.smtp_config # "none"
       /\ (~attempts[1].ok /\ call.args.smtp_config # "none") => tried("SMTP")
       /\ ~attempts[Len(attempts)].ok => tried("File Output")
       /\ result.status = "error"
             <=> \A k \in 1..Len(attempts) : ~attempts[k].ok
       /\ result.status \in {"success", "saved"} <=> attempts[Len(attempts)].ok

\* C25 witness: the Gmail API and SMTP both failed and the email was saved
\* to a file.
C25_Witness ==
    /\ returned("send_email")
    /\ Len(attempts) = 3
    /\ ~attempts[1].ok /\ ~attempts[2].ok /\ attempts[3].ok
    /\ result.status = "saved"
    /\ \E f \in files : f.filename = result.filename /\ f.content.to = call.args.to


\* C26: when the Gmail API fails, the sender the communication agent uses
\* (send_gmail_message) goes on to the later strategies, and answers error
\* only after persisting to a file was tried as well.
C26_ExposedSenderFallsBack ==
    (returned("send_gmail_message") /\ ~attempts[1].ok)
    => /\ tried("File Output")
       /\ result.status = "error" => \A k \in 1..Len(attempts) : ~attempts[k].ok


\* the email attempts of a call, in the order they were made
email_attempts == SelectSeq(attempts, LAMBDA a : a.strategy = "Gmail API")

\* C29: create_meeting_invitation schedules the calendar event before any
\* email; if scheduling fails it sends none and returns the calendar error;
\* after a successful scheduling with send_invitation it makes exactly one
\* email attempt per attendee, in list order, records one entry per attendee
\* in email_notifications whether or not the email went out, and answers
\* success.
C29_InvitationOrder ==
    returned("create_meeting_invitation")
    => /\ attempts # <<>> /\ attempts[1].strategy = "Calendar"
       /\ attempts = <<attempts[1]>> \o email_attempts
       /\ ~attempts[1].ok => email_attempts = <<>> /\ result.status = "error"
       /\ attempts[1].ok =>
            LET attendees == IF call.args.send_invitation
                             THEN call.args.attendees ELSE <<>>
            IN /\ result.status = "success"
               /\ Len(email_attempts) = Len(attendees)
               /\ Len(result.email_notifications) = Len(attendees)
               /\ \A k \in 1..Len(attendees) :
                     /\ email_attempts[k].to = attendees[k]
                     /\ result.email_notifications[k].attendee = attendees[k]
                     /\ result.email_notifications[k].status = "success"
                            <=> email_attempts[k].ok

\* C29 witness: the event is scheduled, the email to the first of two
\* attendees fails and the second attendee is still written to.
C29_Witness ==
    /\ returned("create_meeting_invitation")
    /\ attempts[1].ok
    /\ Len(call.args.attendees) = 2
    /\ Len(email_attempts) = 2
    /\ ~email_attempts[1].ok /\ email_attempts[2].ok
    /\ result.email_notifications[1].status = "error"
    /\ result.status = "success"


\* C30: any two calls of save_email_to_file that saved an email, one after
\* the other or concurrently, wrote to different files.
C30_DistinctFiles ==
    \A p, q \in Savers :
        (p # q /\ savers[p].pc = "saved" /\ savers[q].pc = "saved")
        => savers[p].filename # savers[q].filename

====
